---- MODULE Spec2Model ----
(***************************************************************************)
(* FastJudge judging pipeline: the Judge (verdict determination and        *)
(* judgeAll), the Compiler with its compilation cache, the Executor's      *)
(* process life cycle, and the panel's per-file run state.                 *)
(*                                                                         *)
(* Texts (stdout, expected output) are sequences of one-character strings. *)
(* Opaque messages (stderr text, error messages) are TLA+ strings.         *)
(***************************************************************************)
EXTENDS Integers, Sequences, FiniteSets, TLC

(***************************************************************************)
(* Bounds of the model.                                                    *)
(***************************************************************************)
\* longest captured stdout the mock executor hands to the Judge
MaxLen == 3

\* largest elapsed time (ms) an execution reports
MaxTime == 1

\* number of compile calls that can be in flight at once
MaxCompileCalls == 1

\* largest number of test cases in one judgeAll batch
MaxTests == 2

\* largest number of output chunks a process writes
MaxChunks == 1

\* number of panel runs (run-all or single-test) that can overlap
MaxRuns == 2

\* configured languages
MaxLanguages == 2

(***************************************************************************)
(* State.                                                                  *)
(***************************************************************************)
VARIABLES
    comparisonMode,   \* JudgeService.comparisonMode
    jcall,            \* the judgeTestCase call running against the mock executor
    content,          \* file system: the text of each source file, or ENOENT
    disk,             \* file system: the artifact files that exist, each with
                      \* the source it was compiled from
    cache,            \* CompilerService.cache (MemoryCache): source path -> entry
    ccall,            \* the compile calls in flight, with their local variables
    batch,            \* the judgeAll call in flight, with its local variables
    proc,             \* the execution of the batch's current test case (runProcess)
    signalAborted,    \* AbortSignal.aborted of the signal handed to judgeAll
    abortedAfter,     \* observer: the number of test cases of the batch that had
                      \* been started when the signal was triggered (a set: empty
                      \* until then)
    fileRunState,     \* FastJudgeViewProvider._fileRunState: file -> run-state object
    runStates,        \* the run-state objects: object -> [controller, count]
    abortedControllers, \* the AbortControllers whose signal is aborted
    runs,             \* the runAllTests / runSingleTest calls in flight, with locals
    panelResults,     \* FastJudgeViewProvider._results: test case id -> result,
                      \* each result with the run-all that stored it
    runProgress,      \* per runAllTests call: its ordinal among the run-alls
                      \* begun, and how many of its test cases it has judged
    stopped,          \* observer: the file of the 'stopAll' message handled in
                      \* the last step (a set: empty after any other step)
    languages,        \* the setting fastjudge.languages as last read: its
                      \* entries in the order Object.entries yields them
    providers,        \* LanguageRegistry.providers: a Map, in insertion order
    customProvider,   \* a CustomLanguageProvider, its source path, and what its methods returned
    detected          \* the detectProvider calls answered since the last load:
                      \* the id returned (or undefined) for each path asked

judgeVars == <<comparisonMode, jcall>>

compilerVars == <<content, disk, cache, ccall>>

batchVars == <<batch, proc, signalAborted, abortedAfter>>

panelVars == <<fileRunState, runStates, abortedControllers, runs, stopped>>

resultVars == <<panelResults, runProgress>>

registryVars == <<languages, providers, detected, customProvider>>

vars == <<judgeVars, compilerVars, batchVars, panelVars, registryVars, resultVars>>

(***************************************************************************)
(* Values shared by the components.                                        *)
(***************************************************************************)
\* the JavaScript values undefined / null, kept apart from every real value
Undefined == "undefined"
Null == "null"

\* characters of the modelled texts; " " and "\n" are whitespace (\s)
Alphabet == {"a", " ", "\n"}
Whitespace == {" ", "\n"}

RECURSIVE Texts(_)
\* every text of length at most n over Alphabet
Texts(n) ==
    IF n = 0 THEN {<<>>}
    ELSE LET shorter == Texts(n - 1)
         IN  shorter \cup {Append(t, c) : t \in {s \in shorter : Len(s) = n - 1}, c \in Alphabet}

\* type ComparisonMode
ComparisonModes == {"exact", "trim", "ignoreWhitespace"}

(***************************************************************************)
(* String primitives of the platform, as the Judge uses them.              *)
(***************************************************************************)
RECURSIVE trimEnd(_)
\* String.prototype.trimEnd: drop the whitespace at the end
trimEnd(s) ==
    IF s = <<>> THEN <<>>
    ELSE IF s[Len(s)] \in Whitespace THEN trimEnd(SubSeq(s, 1, Len(s) - 1))
    ELSE s

RECURSIVE trimStart(_)
\* String.prototype.trimStart: drop the whitespace at the start
trimStart(s) ==
    IF s = <<>> THEN <<>>
    ELSE IF s[1] \in Whitespace THEN trimStart(Tail(s))
    ELSE s

\* String.prototype.trim
trim(s) == trimEnd(trimStart(s))

RECURSIVE split(_)
\* String.prototype.split('\n'): the lines of s (always at least one line)
split(s) ==
    IF \A i \in 1..Len(s) : s[i] # "\n" THEN <<s>>
    ELSE LET k == CHOOSE i \in 1..Len(s) : s[i] = "\n" /\ \A j \in 1..(i - 1) : s[j] # "\n"
         IN  <<SubSeq(s, 1, k - 1)>> \o split(SubSeq(s, k + 1, Len(s)))

RECURSIVE join(_)
\* Array.prototype.join('\n')
join(lines) ==
    IF Len(lines) = 0 THEN <<>>
    ELSE IF Len(lines) = 1 THEN lines[1]
    ELSE lines[1] \o <<"\n">> \o join(Tail(lines))

RECURSIVE replaceWhitespaceRuns(_)
\* String.prototype.replace(/\s+/g, ' '): every maximal run of whitespace
\* becomes one space
replaceWhitespaceRuns(s) ==
    IF s = <<>> THEN <<>>
    ELSE IF s[1] \in Whitespace
         THEN <<" ">> \o replaceWhitespaceRuns(trimStart(s))
         ELSE <<s[1]>> \o replaceWhitespaceRuns(Tail(s))

(***************************************************************************)
(* Judge: output comparison (JudgeService.compareOutput and helpers).      *)
(***************************************************************************)
\* trim every line at its end, then trim the end of the whole text
normalizeOutput(output) ==
    LET lines == split(output)
    IN  trimEnd(join([i \in 1..Len(lines) |-> trimEnd(lines[i])]))

\* a collapse that leaves the whitespace at the two ends
collapseWhitespaceNoTrim(output) == replaceWhitespaceRuns(output)

\* collapse all whitespace to single spaces, trim both ends
collapseWhitespace(output) == trim(replaceWhitespaceRuns(output))

\* a trim mode that trims the end of the whole text only
compareOutputTrimTextEndOnly(mode, actual, expected) ==
    CASE mode = "exact" -> actual = expected
      [] mode = "ignoreWhitespace" ->
            collapseWhitespace(actual) = collapseWhitespace(expected)
      [] OTHER -> trimEnd(actual) = trimEnd(expected)

\* a comparison that normalises the actual output only
compareOutputNormalizeActualOnly(mode, actual, expected) ==
    CASE mode = "exact" -> actual = expected
      [] mode = "ignoreWhitespace" -> collapseWhitespace(actual) = expected
      [] OTHER -> normalizeOutput(actual) = expected

\* a comparison that ignores the configured mode
compareOutputExactOnly(mode, actual, expected) == actual = expected

\* does actual match expected under the comparison mode
compareOutput(mode, actual, expected) ==
    CASE mode = "exact" -> actual = expected
      [] mode = "trim" -> normalizeOutput(actual) = normalizeOutput(expected)
      [] mode = "ignoreWhitespace" ->
            collapseWhitespace(actual) = collapseWhitespace(expected)
      [] OTHER -> normalizeOutput(actual) = normalizeOutput(expected)

(***************************************************************************)
(* Executor: exit code to signal name (ExecutorService.parseSignal).       *)
(***************************************************************************)
\* the table SIGNAL_NAMES: signal number -> name
SIGNAL_NAMES == [n \in {11, 8, 6, 9} |->
    CASE n = 11 -> "SIGSEGV" [] n = 8 -> "SIGFPE" [] n = 6 -> "SIGABRT" [] n = 9 -> "SIGKILL"]

\* a table lookup that yields undefined for a missing key
signalName(n) == IF n \in DOMAIN SIGNAL_NAMES THEN SIGNAL_NAMES[n] ELSE Undefined

\* a parser that knows the 128 + n convention only
parseSignalAbove128Only(exitCode) ==
    IF exitCode > 128 THEN signalName(exitCode - 128) ELSE Undefined

parseSignal(exitCode) ==
    IF exitCode > 128 THEN signalName(exitCode - 128)
    ELSE IF exitCode < 0 THEN signalName(-exitCode)
    ELSE Undefined

\* JudgeService.mapSignalToSubtype
mapSignalToSubtype(signal) ==
    IF signal = Undefined THEN "UNKNOWN"
    ELSE IF signal \in {"SIGSEGV", "SIGFPE", "SIGABRT"} THEN signal
    ELSE "UNKNOWN"

(***************************************************************************)
(* Judge: verdict of one test case (JudgeService.judgeTestCase, the part   *)
(* after the execution result has arrived).  A result carries exactly the  *)
(* properties the code sets; the display-only ones that the result-storage *)
(* collaborator fills (file paths, truncated text) are left out.           *)
(***************************************************************************)
\* `Process exited with code N`
exitedWithCode(code) == <<"Process exited with code", code>>

\* the fields every result that follows an execution carries
executedResult(testCase, execResult, verdict) ==
    [testCaseId |-> testCase.id, verdict |-> verdict,
     executionTimeMs |-> execResult.executionTimeMs,
     expectedOutput |-> testCase.expected]

\* the RE result with its extras
runtimeErrorResult(testCase, execResult) ==
    LET signal == parseSignal(execResult.exitCode)
    IN  executedResult(testCase, execResult, "RE") @@
        [runtimeErrorSubtype |-> mapSignalToSubtype(signal),
         exitCode |-> execResult.exitCode,
         signal |-> signal,
         errorMessage |-> IF execResult.stderr # "" THEN execResult.stderr
                          ELSE exitedWithCode(execResult.exitCode)]

\* a judge that compares the output before it looks at the exit code
judgeTestCaseCompareFirst(testCase, execResult, mode) ==
    IF execResult.timedOut THEN executedResult(testCase, execResult, "TLE")
    ELSE IF compareOutput(mode, execResult.stdout, testCase.expected)
    THEN executedResult(testCase, execResult, "AC")
    ELSE IF execResult.exitCode # 0 THEN runtimeErrorResult(testCase, execResult)
    ELSE executedResult(testCase, execResult, "WA")

\* a judge that looks at the exit code before the timed-out flag
judgeTestCaseExitFirst(testCase, execResult, mode) ==
    IF execResult.exitCode # 0 THEN runtimeErrorResult(testCase, execResult)
    ELSE IF execResult.timedOut THEN executedResult(testCase, execResult, "TLE")
    ELSE executedResult(testCase, execResult,
             IF compareOutput(mode, execResult.stdout, testCase.expected)
             THEN "AC" ELSE "WA")

\* the result judgeTestCase builds from an execution result under the
\* comparison mode that is active when the comparison is made
judgeTestCase(testCase, execResult, mode) ==
    IF execResult.timedOut THEN executedResult(testCase, execResult, "TLE")
    ELSE IF execResult.exitCode # 0 THEN runtimeErrorResult(testCase, execResult)
    ELSE executedResult(testCase, execResult,
             IF compareOutput(mode, execResult.stdout, testCase.expected)
             THEN "AC" ELSE "WA")

(***************************************************************************)
(* Language registry: the providers of the loaded configuration            *)
(* (CustomLanguageProvider).  A source path is a record of its directory,  *)
(* its base name without extension, and its extension.                     *)
(***************************************************************************)
SourcePath(dir, name, ext) == [dir |-> dir, name |-> name, ext |-> ext]

\* two sources of a compiled language with the same base name in different
\* directories, one of an interpreted language, one of no language
SourcePaths ==
    {SourcePath("/a", "main", ".cpp"), SourcePath("/b", "main", ".cpp"),
     SourcePath("/a", "run", ".py"), SourcePath("/a", "notes", ".txt")}

\* CompilerService.outputDir
outputDir == "/out"

\* the configured languages: extensions, compile template (absent for an
\* interpreted language); neither configures an output-extension override
Providers ==
    {[id |-> "cpp", extensions |-> {".cpp"},
      compileArgs |-> <<"g++", "${sourceFile}", "-o", "${executableFile}">>],
     [id |-> "python", extensions |-> {".py"}]}

\* LanguageRegistry.detectProvider: the providers that list the extension;
\* the lookup yields one of them, or undefined when the set is empty
detectProvider(filePath) == {p \in Providers : filePath.ext \in p.extensions}

\* process.platform is not win32: binaries carry no extension
binaryExt == ""

\* path.join(outputDir, name + ext)
joinPath(dir, name, ext) == <<dir, name, ext>>

\* the path that replaces the executable-file placeholder of a template
executableFile(sourcePath) == joinPath(outputDir, sourcePath.name, binaryExt)

\* has the provider a non-empty compile template
hasCompileArgs(provider) ==
    "compileArgs" \in DOMAIN provider /\ Len(provider.compileArgs) > 0

\* CustomLanguageProvider.getCompileCommand (defined when hasCompileArgs):
\* the command and the file its arguments name as output
getCompileCommand(provider, sourcePath) ==
    [command |-> provider.compileArgs[1], output |-> executableFile(sourcePath)]

\* CustomLanguageProvider.getExecutablePath (defined when hasCompileArgs)
getExecutablePath(provider, sourcePath) ==
    joinPath(outputDir, sourcePath.name,
             IF "outputExtension" \in DOMAIN provider
             THEN provider.outputExtension ELSE binaryExt)

\* the path as the string the templates and path.join see
pathText(sourcePath) == joinPath(sourcePath.dir, sourcePath.name, sourcePath.ext)

\* CustomLanguageProvider.interpolateVariables on an argument of a template
\* (an argument is one placeholder or a literal): the pieces of the string
\* that results
interpolateVariables(provider, str, sourcePath) ==
    IF str = "${sourceFile}" THEN pathText(sourcePath)
    ELSE IF str = "${outputDir}" THEN <<outputDir>>
    ELSE IF str = "${executableFile}" THEN executableFile(sourcePath)
    ELSE IF str = "${className}" THEN <<sourcePath.name>>
    ELSE <<str>>

\* template.map(str => this.interpolateVariables(str, sourcePath, outputDir))
interpolateAll(provider, template, sourcePath) ==
    [i \in 1..Len(template) |-> interpolateVariables(provider, template[i], sourcePath)]

\* const command = args.shift()!; return { command, args }
commandOf(args) == [command |-> Head(args), args |-> Tail(args)]

\* the configurations a provider is constructed from: compile template
\* absent, empty, naming the executable file, or naming the output
\* directory; three run templates; with and without an output-extension
\* override
ProviderConfigs ==
    LET runArgs == {<<"${executableFile}">>, <<"runner", "${sourceFile}">>,
                    <<"runner", "${outputDir}", "${className}">>}
        compileArgs == {<<>>, <<"compiler", "${sourceFile}", "-o", "${executableFile}">>,
                        <<"compiler", "-d", "${outputDir}", "${sourceFile}">>}
        interpreted == {[runArgs |-> r] : r \in runArgs}
        compiled == {[runArgs |-> r, compileArgs |-> c] : r \in runArgs, c \in compileArgs}
    IN  interpreted \cup compiled
        \cup {[outputExtension |-> ".class"] @@ config : config \in interpreted \cup compiled}

\* no provider constructed
NoProvider == [called |-> {}]

(***************************************************************************)
(* Language registry: loading the configured languages and detecting the   *)
(* language of a path (LanguageRegistry).                                  *)
(***************************************************************************)
\* extensions as path.extname yields them for a path
Extensions == {".c", ".C", ".py", ".txt"}

\* String.prototype.toLowerCase on an extension
toLowerCase(ext) == IF ext = ".C" THEN ".c" ELSE ext

\* language ids, the keys of the setting in the order Object.entries yields
\* them.  Ids are only compared for equality, so one naming per position
\* stands for all.
LanguageIds == <<"lang1", "lang2", "lang3">>

\* a LanguageConfig of the setting as the user wrote it
LanguageConfig(name, extensions, runArgs) ==
    [name |-> name, extensions |-> extensions, runArgs |-> runArgs]

\* the values a language id has in the setting: extensions in upper case,
\* two extensions, an extension without its dot, no extension, an empty
\* name, an empty runArgs
LanguageConfigs ==
    {LanguageConfig("C", <<".C">>, <<"run">>),
     LanguageConfig("C", <<".c", ".py">>, <<"run">>),
     LanguageConfig("C", <<"py">>, <<"run">>),
     LanguageConfig("C", <<>>, <<"run">>),
     LanguageConfig("", <<".c">>, <<"run">>),
     LanguageConfig("C", <<".c">>, <<>>)}

\* an entry of the setting; the entry of an id whose value is null has no
\* config
LanguageEntries(id) ==
    {[id |-> id, config |-> config] : config \in LanguageConfigs} \cup {[id |-> id]}

\* the possible values of the setting with at most n languages
Settings(n) ==
    UNION {{entries \in [1..k -> UNION {LanguageEntries(LanguageIds[i]) : i \in 1..k}] :
               \A i \in 1..k : entries[i].id = LanguageIds[i]} : k \in 0..n}

\* the test of loadFromConfiguration that makes it skip a language:
\* !name || !extensions || !runArgs || runArgs.length === 0
isInvalidConfiguration(langConfig) ==
    \/ langConfig.name = ""
    \/ "extensions" \notin DOMAIN langConfig
    \/ Len(langConfig.runArgs) = 0

\* new CustomLanguageProvider(id, config): extensions in lower case
CustomLanguageProvider(id, config) ==
    [id |-> id,
     extensions |-> {toLowerCase(config.extensions[i]) : i \in 1..Len(config.extensions)}]

RECURSIVE loadFromConfiguration(_)
\* LanguageRegistry.loadFromConfiguration after providers.clear(): the
\* providers of the entries that pass the test, in the order of the entries
\* (a duplicate extension is only reported by console.warn).  Reading
\* langConfig.name of a null value throws a TypeError, which ends the loop:
\* the Map keeps what the loop has set so far.
loadFromConfiguration(entries) ==
    IF entries = <<>> THEN <<>>
    ELSE LET entry == entries[1]
         IN  IF "config" \notin DOMAIN entry THEN <<>>
             ELSE (IF isInvalidConfiguration(entry.config) THEN <<>>
                   ELSE <<CustomLanguageProvider(entry.id, entry.config)>>)
                  \o loadFromConfiguration(Tail(entries))

\* a lookup that answers with the language that claimed the extension last
detectProviderLastClaim(registered, ext) ==
    LET claims == {i \in 1..Len(registered) : toLowerCase(ext) \in registered[i].extensions}
    IN  IF claims = {} THEN Undefined
        ELSE registered[CHOOSE i \in claims : \A j \in claims : j <= i].id

\* LanguageRegistry.detectProvider: the first provider, in the order of the
\* Map, whose extensions include the extension in lower case (its id)
detectProviderId(registered, ext) ==
    LET claims == {i \in 1..Len(registered) : toLowerCase(ext) \in registered[i].extensions}
    IN  IF claims = {} THEN Undefined
        ELSE registered[CHOOSE i \in claims : \A j \in claims : i <= j].id

RegistryInit ==
    /\ languages = <<>>
    /\ providers = <<>>
    /\ detected = <<>>
    /\ customProvider = NoProvider

\* the setting is read and the registry reloaded
LoadFromConfiguration(entries) ==
    /\ languages' = entries
    /\ providers' = loadFromConfiguration(entries)
    /\ detected' = <<>>
    /\ UNCHANGED customProvider

\* detectProvider is called for a path with the extension
DetectProvider(ext) ==
    /\ detected' = (ext :> detectProviderId(providers, ext)) @@ detected
    /\ UNCHANGED <<languages, providers, customProvider>>

\* new CustomLanguageProvider(id, config) for a source path
NewCustomLanguageProvider(config, sourcePath) ==
    /\ customProvider' = [config |-> config, sourcePath |-> sourcePath, called |-> {}]
    /\ UNCHANGED <<languages, providers, detected>>

\* provider.getCompileCommand(sourcePath, outputDir); null leaves no command
GetCompileCommand ==
    /\ "config" \in DOMAIN customProvider
    /\ "getCompileCommand" \notin customProvider.called
    /\ LET config == customProvider.config
           called == [customProvider EXCEPT !.called = @ \cup {"getCompileCommand"}]
       IN  customProvider' =
               IF hasCompileArgs(config)
               THEN [compileCommand |->
                        commandOf(interpolateAll(config, config.compileArgs, customProvider.sourcePath))]
                    @@ called
               ELSE called
    /\ UNCHANGED <<languages, providers, detected>>

\* provider.getRunCommand(sourcePath, outputDir)
GetRunCommand ==
    /\ "config" \in DOMAIN customProvider
    /\ "getRunCommand" \notin customProvider.called
    /\ customProvider' =
           [runCommand |->
               commandOf(interpolateAll(customProvider.config, customProvider.config.runArgs, customProvider.sourcePath))]
           @@ [customProvider EXCEPT !.called = @ \cup {"getRunCommand"}]
    /\ UNCHANGED <<languages, providers, detected>>

\* provider.getExecutablePath(sourcePath, outputDir); undefined leaves no path
GetExecutablePath ==
    /\ "config" \in DOMAIN customProvider
    /\ "getExecutablePath" \notin customProvider.called
    /\ LET config == customProvider.config
           called == [customProvider EXCEPT !.called = @ \cup {"getExecutablePath"}]
       IN  customProvider' =
               IF hasCompileArgs(config)
               THEN [executablePath |-> getExecutablePath(config, customProvider.sourcePath)]
                    @@ called
               ELSE called
    /\ UNCHANGED <<languages, providers, detected>>

ProviderNext ==
    \/ \E config \in ProviderConfigs, sourcePath \in SourcePaths :
          NewCustomLanguageProvider(config, sourcePath)
       /\ UNCHANGED <<judgeVars, compilerVars, batchVars, panelVars, resultVars>>
    \/ GetCompileCommand /\ UNCHANGED <<judgeVars, compilerVars, batchVars, panelVars, resultVars>>
    \/ GetRunCommand /\ UNCHANGED <<judgeVars, compilerVars, batchVars, panelVars, resultVars>>
    \/ GetExecutablePath /\ UNCHANGED <<judgeVars, compilerVars, batchVars, panelVars, resultVars>>

RegistryNext ==
    \/ \E entries \in Settings(MaxLanguages) : LoadFromConfiguration(entries)
       /\ UNCHANGED <<judgeVars, compilerVars, batchVars, panelVars, resultVars>>
    \/ \E ext \in Extensions : DetectProvider(ext)
       /\ UNCHANGED <<judgeVars, compilerVars, batchVars, panelVars, resultVars>>

(***************************************************************************)
(* Compiler and compilation cache (CompilerService, MemoryCache).          *)
(* A cache is a function whose domain is the set of keys present; a result *)
(* or entry carries exactly the properties the code sets on it.            *)
(***************************************************************************)
\* texts of a source file; the compiler only hashes them and compares the
\* hashes, so two distinct texts stand for all
SourceTexts == {"v1", "v2"}

\* the source file does not exist or cannot be read
ENOENT == "ENOENT"

\* the digest is taken to be collision-free on the modelled texts
computeHash(text) == <<"md5", text>>

\* the sources whose language has a compile template
CompiledPaths ==
    {p \in SourcePaths : \E provider \in detectProvider(p) : hasCompileArgs(provider)}

ArtifactPaths ==
    {getExecutablePath(provider, p) : provider \in Providers, p \in CompiledPaths}

\* the empty Map
EmptyCache == [p \in {} |-> {}]

\* Map.set
cacheSet(c, key, entry) == [p \in DOMAIN c \cup {key} |-> IF p = key THEN entry ELSE c[p]]

\* Map.delete
cacheDelete(c, key) == [p \in DOMAIN c \ {key} |-> c[p]]

\* type CacheEntry (the timestamp compiledAt is never read and is left out)
CacheEntry(hash, dir, executablePath) ==
    [contentHash |-> hash, outputDir |-> dir, executablePath |-> executablePath]

CompileCalls == 1..MaxCompileCalls

\* no call in the slot
NoCompile == [pc |-> "idle"]

CompilerInit ==
    /\ content = [p \in CompiledPaths |-> "v1"]
    /\ disk = EmptyCache
    /\ cache = EmptyCache
    /\ ccall = [c \in CompileCalls |-> NoCompile]

\* the call returns result
CompileReturn(c, result) ==
    ccall' = [ccall EXCEPT ![c] = [pc |-> "done", result |-> result] @@ ccall[c]]

\* a compile that reports the interpreted case as a fresh compilation
CompileCallInterpretedUncached(c, sourcePath) ==
    /\ ccall[c].pc = "idle"
    /\ IF detectProvider(sourcePath) = {}
       THEN ccall' = [ccall EXCEPT ![c] =
                [pc |-> "done", sourcePath |-> sourcePath, spawned |-> FALSE,
                 result |-> [success |-> FALSE, error |-> "Unsupported file type"]]]
       ELSE \E provider \in detectProvider(sourcePath) :
              IF ~hasCompileArgs(provider)
              THEN ccall' = [ccall EXCEPT ![c] =
                       [pc |-> "done", sourcePath |-> sourcePath, spawned |-> FALSE,
                        result |-> [success |-> TRUE, outputDir |-> outputDir, cached |-> FALSE]]]
              ELSE ccall' = [ccall EXCEPT ![c] =
                       [pc |-> "read", sourcePath |-> sourcePath, provider |-> provider,
                        spawned |-> FALSE]]
    /\ UNCHANGED <<content, disk, cache>>

\* compile, up to its first await: language detection and the interpreted case
CompileCall(c, sourcePath) ==
    /\ ccall[c].pc = "idle"
    /\ IF detectProvider(sourcePath) = {}
       THEN ccall' = [ccall EXCEPT ![c] =
                [pc |-> "done", sourcePath |-> sourcePath, spawned |-> FALSE,
                 result |-> [success |-> FALSE, error |-> "Unsupported file type"]]]
       ELSE \E provider \in detectProvider(sourcePath) :
              IF ~hasCompileArgs(provider)
              THEN ccall' = [ccall EXCEPT ![c] =
                       [pc |-> "done", sourcePath |-> sourcePath, spawned |-> FALSE,
                        result |-> [success |-> TRUE, outputDir |-> outputDir, cached |-> TRUE]]]
              ELSE ccall' = [ccall EXCEPT ![c] =
                       [pc |-> "read", sourcePath |-> sourcePath, provider |-> provider,
                        spawned |-> FALSE]]
    /\ UNCHANGED <<content, disk, cache>>

\* a cache check that trusts the entry without looking for the artifact
CompileReadNoAccess(c) ==
    /\ ccall[c].pc = "read"
    /\ LET sourcePath == ccall[c].sourcePath
           text == content[sourcePath]
           hash == computeHash(text)
       IN  IF text = ENOENT
           THEN CompileReturn(c, [success |-> FALSE, error |-> "Cannot read source file"])
           ELSE IF sourcePath \in DOMAIN cache /\ cache[sourcePath].contentHash = hash
           THEN ccall' = [ccall EXCEPT ![c] =
                    [pc |-> "done", hash |-> hash, cached |-> cache[sourcePath],
                     result |-> [success |-> TRUE, outputDir |-> cache[sourcePath].outputDir,
                                 cached |-> TRUE]] @@ ccall[c]]
           ELSE ccall' = [ccall EXCEPT ![c] = [pc |-> "mkdir", hash |-> hash] @@ ccall[c]]
    /\ UNCHANGED <<content, disk, cache>>

\* readFile settles: hash the text and look the source up in the cache
CompileRead(c) ==
    /\ ccall[c].pc = "read"
    /\ LET sourcePath == ccall[c].sourcePath
           text == content[sourcePath]
           hash == computeHash(text)
       IN  IF text = ENOENT
           THEN CompileReturn(c, [success |-> FALSE, error |-> "Cannot read source file"])
           ELSE IF sourcePath \in DOMAIN cache /\ cache[sourcePath].contentHash = hash
           THEN LET cached == cache[sourcePath]
                IN  IF "executablePath" \in DOMAIN cached
                    THEN ccall' = [ccall EXCEPT ![c] =
                             [pc |-> "access", hash |-> hash, cached |-> cached] @@ ccall[c]]
                    ELSE ccall' = [ccall EXCEPT ![c] =
                             [pc |-> "done", hash |-> hash, cached |-> cached,
                              result |-> [success |-> TRUE, outputDir |-> cached.outputDir,
                                          cached |-> TRUE]] @@ ccall[c]]
           ELSE ccall' = [ccall EXCEPT ![c] = [pc |-> "mkdir", hash |-> hash] @@ ccall[c]]
    /\ UNCHANGED <<content, disk, cache>>

\* an access check whose failure is ignored: the entry is served anyway
CompileAccessIgnored(c) ==
    /\ ccall[c].pc = "access"
    /\ ccall' = [ccall EXCEPT ![c] =
           [pc |-> "done",
            access |-> IF ccall[c].cached.executablePath \in DOMAIN disk THEN "ok" ELSE "missing",
            result |-> [success |-> TRUE, outputDir |-> ccall[c].cached.outputDir,
                        cached |-> TRUE]] @@ ccall[c]]
    /\ UNCHANGED <<content, disk, cache>>

\* fs.access settles: a hit if the artifact exists, else invalidate the
\* entry and recompile
CompileAccess(c) ==
    /\ ccall[c].pc = "access"
    /\ IF ccall[c].cached.executablePath \in DOMAIN disk
       THEN /\ ccall' = [ccall EXCEPT ![c] =
                   [pc |-> "done", access |-> "ok",
                    result |-> [success |-> TRUE, outputDir |-> ccall[c].cached.outputDir,
                                cached |-> TRUE]] @@ ccall[c]]
            /\ UNCHANGED cache
       ELSE /\ cache' = cacheDelete(cache, ccall[c].sourcePath)
            /\ ccall' = [ccall EXCEPT ![c] =
                   [pc |-> "mkdir", access |-> "missing"] @@ ccall[c]]
    /\ UNCHANGED <<content, disk>>

\* recompile: mkdir settles and runCompiler spawns the compiler process
CompileSpawn(c) ==
    /\ ccall[c].pc = "mkdir"
    /\ ccall' = [ccall EXCEPT ![c] = [pc |-> "compiling", spawned |-> TRUE] @@ ccall[c]]
    /\ UNCHANGED <<content, disk, cache>>

\* a promise settled by the last call of resolve
resolveCompilerLastWins(call, result) == [compiled |-> result] @@ call

\* resolve of the promise of runCompiler: only the first call settles it
resolveCompiler(call, result) ==
    IF "compiled" \in DOMAIN call THEN call ELSE [compiled |-> result] @@ call

\* the compiler process could not be launched: its error event, which the
\* close event of the child follows with a negative code
CompilerError(c) ==
    /\ ccall[c].pc = "compiling"
    /\ ccall' = [ccall EXCEPT ![c] =
           resolveCompiler([pc |-> "errored"] @@ ccall[c],
                           [success |-> FALSE, error |-> "Compiler not found"])]
    /\ UNCHANGED <<content, disk, cache>>

\* a recompile that records the cache entry whatever the exit code
CompilerCloseAlwaysCache(c, code) ==
    /\ ccall[c].pc = "compiling"
    /\ LET sourcePath == ccall[c].sourcePath
           provider == ccall[c].provider
       IN  /\ cache' = cacheSet(cache, sourcePath,
                  CacheEntry(ccall[c].hash, outputDir, getExecutablePath(provider, sourcePath)))
           /\ IF code = 0
              THEN /\ disk' = cacheSet(disk, getCompileCommand(provider, sourcePath).output,
                                       sourcePath)
                   /\ CompileReturn(c, [success |-> TRUE, outputDir |-> outputDir,
                                        cached |-> FALSE])
              ELSE /\ CompileReturn(c, [success |-> FALSE, error |-> "Compilation failed",
                                        cached |-> FALSE])
                   /\ UNCHANGED disk
    /\ UNCHANGED content

\* the compiler process closes with an exit code (with code 0 it has written
\* the file its command names); runCompiler resolves, and recompile records
\* the cache entry if the promise was settled with success
CompilerClose(c, code) ==
    /\ ccall[c].pc \in {"compiling", "errored"}
    /\ (ccall[c].pc = "errored") = (code < 0)
    /\ LET sourcePath == ccall[c].sourcePath
           provider == ccall[c].provider
           closed == resolveCompiler(ccall[c],
                         IF code = 0 THEN [success |-> TRUE, outputDir |-> outputDir]
                         ELSE [success |-> FALSE, error |-> "Compilation failed"])
           result == closed.compiled
       IN  /\ disk' = IF code = 0
                      THEN cacheSet(disk, getCompileCommand(provider, sourcePath).output,
                                    sourcePath)
                      ELSE disk
           /\ cache' = IF result.success
                       THEN cacheSet(cache, sourcePath,
                                CacheEntry(ccall[c].hash, outputDir,
                                           getExecutablePath(provider, sourcePath)))
                       ELSE cache
           /\ ccall' = [ccall EXCEPT ![c] =
                  [pc |-> "done", result |-> result @@ [cached |-> FALSE]] @@ closed]
    /\ UNCHANGED content

\* the caller takes the result of the call
CompileDone(c) ==
    /\ ccall[c].pc = "done"
    /\ ccall' = [ccall EXCEPT ![c] = NoCompile]
    /\ UNCHANGED <<content, disk, cache>>

\* CompilerService.clearCache
clearCache ==
    /\ cache' = EmptyCache
    /\ UNCHANGED <<content, disk, ccall>>

\* environment: the user edits (or removes) a source file
EditSource(sourcePath, text) ==
    /\ content[sourcePath] # text
    /\ content' = [content EXCEPT ![sourcePath] = text]
    /\ UNCHANGED <<disk, cache, ccall>>

\* environment: an artifact file is deleted
DeleteArtifact(artifact) ==
    /\ artifact \in DOMAIN disk
    /\ disk' = cacheDelete(disk, artifact)
    /\ UNCHANGED <<content, cache, ccall>>

\* exit codes of the compiler process; the negative one is the errno the
\* close event carries after a failed launch
CompilerExitCodes == {0, 1, -2}

CompilerNext ==
    \/ \E c \in CompileCalls, sourcePath \in SourcePaths : CompileCall(c, sourcePath)
       /\ UNCHANGED <<judgeVars, batchVars, panelVars, registryVars, resultVars>>
    \/ \E c \in CompileCalls : CompileRead(c)
       /\ UNCHANGED <<judgeVars, batchVars, panelVars, registryVars, resultVars>>
    \/ \E c \in CompileCalls : CompileAccess(c)
       /\ UNCHANGED <<judgeVars, batchVars, panelVars, registryVars, resultVars>>
    \/ \E c \in CompileCalls : CompileSpawn(c)
       /\ UNCHANGED <<judgeVars, batchVars, panelVars, registryVars, resultVars>>
    \/ \E c \in CompileCalls : CompilerError(c)
       /\ UNCHANGED <<judgeVars, batchVars, panelVars, registryVars, resultVars>>
    \/ \E c \in CompileCalls, code \in CompilerExitCodes : CompilerClose(c, code)
       /\ UNCHANGED <<judgeVars, batchVars, panelVars, registryVars, resultVars>>
    \/ \E c \in CompileCalls : CompileDone(c)
       /\ UNCHANGED <<judgeVars, batchVars, panelVars, registryVars, resultVars>>
    \/ clearCache
       /\ UNCHANGED <<judgeVars, batchVars, panelVars, registryVars, resultVars>>
    \/ \E sourcePath \in CompiledPaths, text \in SourceTexts \cup {ENOENT} : EditSource(sourcePath, text)
       /\ UNCHANGED <<judgeVars, batchVars, panelVars, registryVars, resultVars>>
    \/ \E artifact \in ArtifactPaths : DeleteArtifact(artifact)
       /\ UNCHANGED <<judgeVars, batchVars, panelVars, registryVars, resultVars>>

(***************************************************************************)
(* Executor: one execution (ExecutorService.runProcess).  The record proc  *)
(* holds the closure's variables and the state of the spawned process:     *)
(*   os      "alive", "dying" (a kill signal is on its way), "dead", or    *)
(*           "failed" (the process could not be spawned)                   *)
(*   kills   the kill signals sent to the process so far                   *)
(*   descendants  the processes the process started: "none", "alive"       *)
(*           (holding the inherited pipes), "detached" (running, pipes     *)
(*           closed) or "dead"                                             *)
(*   stdin   "pending" while input written to proc.stdin has not all been  *)
(*           taken by the pipe, then "flushed"                             *)
(*   uncaught  an 'error' event was emitted on a stream without a listener *)
(*   timer   the executor's own time-limit timer: "armed", "fired",        *)
(*           "cleared"                                                     *)
(***************************************************************************)
\* no execution
NoProc == [pc |-> "idle"]

\* the result of runProcess when the signal is already aborted
AbortedResult ==
    [stdout |-> <<>>, stderr |-> "", exitCode |-> -1, signal |-> Null,
     executionTimeMs |-> 0, timedOut |-> FALSE, aborted |-> TRUE]

\* performance.now() - startTime after a spawn: some positive time, the same
\* for every reading since no decision of the executor compares two of them
ElapsedTimes == {1}

\* the closure right after spawn, timer armed
SpawnedProc(os) ==
    [pc |-> "running", os |-> os, kills |-> {}, descendants |-> "none", spawned |-> TRUE,
     stdin |-> IF os = "alive" THEN "pending" ELSE "flushed", uncaught |-> FALSE,
     timer |-> "armed", builtin |-> "armed",
     executionTimeMs |-> 0, timedOut |-> FALSE, exitCode |-> -1, exitSignal |-> Null,
     stdout |-> <<>>, stderr |-> "", exited |-> FALSE, closed |-> FALSE, resolved |-> FALSE]

\* runProcess with the early-abort test left out: a process is always spawned
runProcessAlwaysSpawn(aborted, os) == SpawnedProc(os)

\* runProcess, up to the end of the Promise executor
runProcess(aborted, os) ==
    IF aborted
    THEN [pc |-> "running", spawned |-> FALSE, resolved |-> TRUE, result |-> AbortedResult]
    ELSE SpawnedProc(os)

\* resolve(result): only the first call settles the promise
resolve(p, result) ==
    IF p.resolved THEN p ELSE [resolved |-> TRUE, result |-> result] @@ p

\* an error result that keeps the message when the signal is aborted
ErrorResultKeepMessage(p, elapsed, aborted) ==
    [stdout |-> <<>>, stderr |-> "Execution error",
     exitCode |-> -1, signal |-> Null, executionTimeMs |-> elapsed,
     timedOut |-> FALSE, aborted |-> aborted]

\* an error result that reports the exit code of a clean exit
ErrorResultExitZero(p, elapsed, aborted) ==
    [stdout |-> <<>>, stderr |-> IF aborted THEN "" ELSE "Execution error",
     exitCode |-> 0, signal |-> Null, executionTimeMs |-> elapsed,
     timedOut |-> FALSE, aborted |-> aborted]

\* the result the error handler resolves with
ErrorResult(p, elapsed, aborted) ==
    [stdout |-> <<>>, stderr |-> IF aborted THEN "" ELSE "Execution error",
     exitCode |-> -1, signal |-> Null, executionTimeMs |-> elapsed,
     timedOut |-> FALSE, aborted |-> aborted]

\* an error handler that resolves without clearing the timer
onErrorKeepTimer(p, elapsed, aborted) ==
    resolve(p, ErrorResult(p, elapsed, aborted))

\* proc.on('error'): clear the timer and resolve
onError(p, elapsed, aborted) ==
    resolve([p EXCEPT !.timer = IF @ = "armed" THEN "cleared" ELSE @],
            ErrorResult(p, elapsed, aborted))

\* proc.stdout.on('data'): the process writes a chunk
ProcData ==
    /\ proc.pc = "running" /\ proc.spawned
    /\ proc.os \in {"alive", "dying"}
    /\ Len(proc.stdout) < MaxChunks
    /\ proc' = [proc EXCEPT !.stdout = Append(@, "a")]
    /\ UNCHANGED <<batch, signalAborted, abortedAfter>>

\* the platforms killProcess tells apart
Platforms == {"posix", "win32"}

\* killProcess: on win32 taskkill /t ends the whole tree; elsewhere
\* process.kill(-pid) finds no process group led by the child, which was
\* spawned without detached, and the fallback proc.kill ends the child alone
killProcess(p, platform) ==
    IF p.os \in {"alive", "dying"}
    THEN [p EXCEPT !.os = "dying", !.kills = @ \cup {"SIGKILL"},
                   !.descendants = IF platform = "win32" /\ @ # "none" THEN "dead" ELSE @]
    ELSE p

\* the callback of the executor's timer: timedOut = true; killProcess(proc)
timer(p, platform) ==
    IF p.timer = "armed"
    THEN killProcess([p EXCEPT !.timer = "fired", !.timedOut = TRUE], platform)
    ELSE p

\* the callback of the timeout handed to spawn: child.kill(killSignal); it is
\* cleared when the child exits
builtinTimeout(p) ==
    IF p.builtin = "armed" /\ p.os \in {"alive", "dying"}
    THEN [p EXCEPT !.builtin = "fired", !.os = "dying", !.kills = @ \cup {"SIGTERM"}]
    ELSE p

\* an executor whose timer is dropped as soon as the platform's timeout has
\* killed the child
TimeLimitElapsesBuiltinOnly(platform) ==
    /\ proc.pc = "running" /\ proc.spawned
    /\ proc.os # "failed"
    /\ proc.timer = "armed" \/ (proc.builtin = "armed" /\ proc.os \in {"alive", "dying"})
    /\ proc' = IF proc.builtin = "armed" /\ proc.os \in {"alive", "dying"}
               THEN [builtinTimeout(proc) EXCEPT !.timer = "cleared"]
               ELSE timer(proc, platform)
    /\ UNCHANGED <<batch, signalAborted, abortedAfter>>

\* the time limit elapses.  Both timers were started in the same turn with
\* the same delay, the one of spawn first, so the callbacks of those still
\* armed run one after the other before any other event is handled
TimeLimitElapses(platform) ==
    /\ proc.pc = "running" /\ proc.spawned
    /\ proc.os # "failed"
    /\ proc.timer = "armed" \/ (proc.builtin = "armed" /\ proc.os \in {"alive", "dying"})
    /\ proc' = timer(builtinTimeout(proc), platform)
    /\ UNCHANGED <<batch, signalAborted, abortedAfter>>

\* the process starts a process of its own, which inherits the pipes
ProcFork ==
    /\ proc.pc = "running" /\ proc.spawned
    /\ proc.os = "alive"
    /\ proc.descendants = "none"
    /\ proc' = [proc EXCEPT !.descendants = "alive"]
    /\ UNCHANGED <<batch, signalAborted, abortedAfter>>

\* the descendant closes its ends of the inherited pipes and runs on
DescendantDetach ==
    /\ proc.pc = "running" /\ proc.spawned
    /\ proc.descendants = "alive"
    /\ proc' = [proc EXCEPT !.descendants = "detached"]
    /\ UNCHANGED <<batch, signalAborted, abortedAfter>>

\* the descendant ends by itself
DescendantExit ==
    /\ proc.pc = "running" /\ proc.spawned
    /\ proc.descendants \in {"alive", "detached"}
    /\ proc' = [proc EXCEPT !.descendants = "dead"]
    /\ UNCHANGED <<batch, signalAborted, abortedAfter>>

\* proc.on('exit'): the process ended by itself with an exit code
ProcExit(code, elapsed) ==
    /\ proc.pc = "running" /\ proc.spawned
    /\ proc.os = "alive"
    /\ proc' = [proc EXCEPT !.os = "dead", !.exited = TRUE,
                            !.builtin = IF @ = "armed" THEN "cleared" ELSE @,
                            !.executionTimeMs = elapsed, !.exitCode = code]
    /\ UNCHANGED <<batch, signalAborted, abortedAfter>>

\* proc.on('exit'): the process was killed by one of the signals sent; its
\* code is null, recorded as -1
ProcKilled(killSignal, elapsed) ==
    /\ proc.pc = "running" /\ proc.spawned
    /\ proc.os = "dying"
    /\ killSignal \in proc.kills
    /\ proc' = [proc EXCEPT !.os = "dead", !.exited = TRUE,
                            !.builtin = IF @ = "armed" THEN "cleared" ELSE @,
                            !.executionTimeMs = elapsed, !.exitCode = -1,
                            !.exitSignal = killSignal]
    /\ UNCHANGED <<batch, signalAborted, abortedAfter>>

\* proc.on('close'): clear the timer and resolve with what was captured
ProcClose ==
    /\ proc.pc = "running" /\ proc.spawned
    /\ proc.os \in {"dead", "failed"}
    /\ proc.os = "failed" => proc.resolved
    /\ proc.descendants # "alive"
    /\ ~proc.closed
    /\ \E elapsed \in ElapsedTimes :
         LET time == IF proc.executionTimeMs = 0 THEN elapsed ELSE proc.executionTimeMs
             p == [proc EXCEPT !.closed = TRUE, !.executionTimeMs = time,
                               !.timer = IF @ = "armed" THEN "cleared" ELSE @]
         IN  proc' = resolve(p,
                 [stdout |-> p.stdout, stderr |-> p.stderr, exitCode |-> p.exitCode,
                  signal |-> p.exitSignal, executionTimeMs |-> time,
                  timedOut |-> p.timedOut, aborted |-> signalAborted])
    /\ UNCHANGED <<batch, signalAborted, abortedAfter>>

\* proc.on('error') for a process that could not be spawned
ProcError ==
    /\ proc.pc = "running" /\ proc.spawned
    /\ proc.os = "failed"
    /\ ~proc.resolved
    /\ \E elapsed \in ElapsedTimes : proc' = onError(proc, elapsed, signalAborted)
    /\ UNCHANGED <<batch, signalAborted, abortedAfter>>

\* the abort listener spawn installs for its signal option: child.kill, and
\* if the child was still there the error event is emitted at once
abortChildProcess(p, elapsed) ==
    IF p.pc = "running" /\ p.spawned /\ p.os \in {"alive", "dying"}
    THEN onError([p EXCEPT !.os = "dying", !.kills = @ \cup {"SIGTERM"}], elapsed, TRUE)
    ELSE p

\* the pipe takes the rest of the input written to proc.stdin
StdinFlush ==
    /\ proc.pc = "running" /\ proc.spawned
    /\ proc.os \in {"alive", "dying"}
    /\ proc.stdin = "pending"
    /\ proc' = [proc EXCEPT !.stdin = "flushed"]
    /\ UNCHANGED <<batch, signalAborted, abortedAfter>>

\* the process is gone before the pipe took all the input: the write fails
\* and proc.stdin emits 'error', for which runProcess registers no listener
StdinError ==
    /\ proc.pc = "running" /\ proc.spawned
    /\ proc.os = "dead"
    /\ proc.stdin = "pending"
    /\ proc' = [proc EXCEPT !.stdin = "failed", !.uncaught = TRUE]
    /\ UNCHANGED <<batch, signalAborted, abortedAfter>>

(***************************************************************************)
(* Executor: one call of execute on a signal the caller holds.             *)
(***************************************************************************)
\* execute is called
ExecuteCall(os) ==
    /\ batch.pc = "idle"
    /\ proc.pc = "idle"
    /\ proc' = runProcess(signalAborted, os)
    /\ UNCHANGED <<batch, signalAborted, abortedAfter>>

\* the caller triggers the signal, before or during the execution
ExecuteAbort ==
    /\ batch.pc = "idle"
    /\ ~signalAborted
    /\ signalAborted' = TRUE
    /\ \E elapsed \in ElapsedTimes : proc' = abortChildProcess(proc, elapsed)
    /\ UNCHANGED <<batch, abortedAfter>>

\* no process of the execution is left
TreeGone(p) ==
    p.spawned => /\ p.os \in {"dead", "failed"}
                 /\ p.descendants \in {"none", "dead"}

\* the caller has the result and every process of the execution is gone: the
\* next call comes with a fresh signal
ExecuteReturn ==
    /\ batch.pc = "idle"
    /\ proc.pc = "running"
    /\ proc.resolved
    /\ TreeGone(proc)
    /\ proc.spawned => (proc.closed /\ proc.stdin # "pending")
    /\ proc' = NoProc
    /\ signalAborted' = FALSE
    /\ UNCHANGED <<batch, abortedAfter>>

ExecNext ==
    \/ \E os \in {"alive", "failed"} : ExecuteCall(os)
       /\ UNCHANGED <<judgeVars, compilerVars, panelVars, registryVars, resultVars>>
    \/ ExecuteAbort /\ UNCHANGED <<judgeVars, compilerVars, panelVars, registryVars, resultVars>>
    \/ ExecuteReturn /\ UNCHANGED <<judgeVars, compilerVars, panelVars, registryVars, resultVars>>
    \/ ProcData /\ UNCHANGED <<judgeVars, compilerVars, panelVars, registryVars, resultVars>>
    \/ StdinFlush /\ UNCHANGED <<judgeVars, compilerVars, panelVars, registryVars, resultVars>>
    \/ StdinError /\ UNCHANGED <<judgeVars, compilerVars, panelVars, registryVars, resultVars>>
    \/ ProcFork /\ UNCHANGED <<judgeVars, compilerVars, panelVars, registryVars, resultVars>>
    \/ DescendantDetach /\ UNCHANGED <<judgeVars, compilerVars, panelVars, registryVars, resultVars>>
    \/ DescendantExit /\ UNCHANGED <<judgeVars, compilerVars, panelVars, registryVars, resultVars>>
    \/ \E platform \in Platforms : TimeLimitElapses(platform)
       /\ UNCHANGED <<judgeVars, compilerVars, panelVars, registryVars, resultVars>>
    \/ \E code \in {0, 1}, elapsed \in ElapsedTimes : ProcExit(code, elapsed)
       /\ UNCHANGED <<judgeVars, compilerVars, panelVars, registryVars, resultVars>>
    \/ \E killSignal \in {"SIGKILL", "SIGTERM"}, elapsed \in ElapsedTimes :
          ProcKilled(killSignal, elapsed)
       /\ UNCHANGED <<judgeVars, compilerVars, panelVars, registryVars, resultVars>>
    \/ ProcClose /\ UNCHANGED <<judgeVars, compilerVars, panelVars, registryVars, resultVars>>
    \/ ProcError /\ UNCHANGED <<judgeVars, compilerVars, panelVars, registryVars, resultVars>>

(***************************************************************************)
(* Judge: judgeAll (JudgeService.judgeAll) on a signal the caller holds.   *)
(***************************************************************************)
\* the test cases of a batch of n: ids in input order
BatchCases(n) == [i \in 1..n |-> [id |-> i, expected |-> <<"a">>]]

\* the compile call judgeAll awaits
BatchCompile == 1

NoBatch == [pc |-> "idle"]

BatchInit ==
    /\ batch = NoBatch
    /\ proc = NoProc
    /\ signalAborted = FALSE
    /\ abortedAfter = {}

\* testCases.map(tc => CE result)
compileErrorResults(testCases, error) ==
    [i \in 1..Len(testCases) |->
        [testCaseId |-> testCases[i].id, verdict |-> "CE", executionTimeMs |-> 0,
         expectedOutput |-> testCases[i].expected, errorMessage |-> error]]

\* judgeAll is called: it awaits compile
JudgeAllCall(sourcePath, n) ==
    /\ batch.pc = "idle"
    /\ CompileCall(BatchCompile, sourcePath)
    /\ batch' = [pc |-> "compiling", testCases |-> BatchCases(n),
                 results |-> <<>>, execResults |-> <<>>, spawned |-> <<>>]
    /\ UNCHANGED <<proc, signalAborted, abortedAfter>>

\* a judgeAll that runs the test cases whatever compile returned
JudgeAllCompiledIgnoreFailure ==
    /\ batch.pc = "compiling"
    /\ ccall[BatchCompile].pc = "done"
    /\ batch' = [pc |-> "starting", compileResult |-> ccall[BatchCompile].result] @@ batch
    /\ CompileDone(BatchCompile)
    /\ UNCHANGED <<proc, signalAborted, abortedAfter>>

\* compile has returned: CE for every test case, or enter the loop
JudgeAllCompiled ==
    /\ batch.pc = "compiling"
    /\ ccall[BatchCompile].pc = "done"
    /\ LET compileResult == ccall[BatchCompile].result
       IN  IF ~compileResult.success
           THEN batch' = [pc |-> "done", compileResult |-> compileResult,
                          results |-> compileErrorResults(batch.testCases, compileResult.error)]
                         @@ batch
           ELSE batch' = [pc |-> "starting", compileResult |-> compileResult] @@ batch
    /\ CompileDone(BatchCompile)
    /\ UNCHANGED <<proc, signalAborted, abortedAfter>>

\* judgeTestCase for the next test case calls executor.execute
JudgeAllExecute ==
    /\ batch.pc = "starting"
    /\ \E os \in {"alive", "failed"} :
         /\ proc' = runProcess(signalAborted, os)
         /\ batch' = [batch EXCEPT !.pc = "executing",
                         !.spawned = Append(@, proc'.spawned)]
    /\ UNCHANGED <<signalAborted, abortedAfter, compilerVars>>

\* a judgeAll that puts each new result in front of the ones it has
JudgeAllPushFront ==
    /\ batch.pc = "executing"
    /\ proc.resolved
    /\ LET i == Len(batch.results) + 1
           result == judgeTestCase(batch.testCases[i], proc.result, comparisonMode)
       IN  batch' = [batch EXCEPT
                        !.results = <<result>> \o @,
                        !.execResults = Append(@, proc.result),
                        !.pc = IF i = Len(batch.testCases) THEN "done" ELSE "starting"]
    /\ proc' = NoProc
    /\ UNCHANGED <<signalAborted, abortedAfter, compilerVars>>

\* a judgeAll that rewrites the verdicts it already has when an execution
\* comes back aborted
JudgeAllPushStopAll ==
    /\ batch.pc = "executing"
    /\ proc.resolved
    /\ LET i == Len(batch.results) + 1
           result == judgeTestCase(batch.testCases[i], proc.result, comparisonMode)
           earlier == IF proc.result.aborted
                      THEN [k \in 1..Len(batch.results) |->
                               [batch.results[k] EXCEPT !.verdict = "STOPPED"]]
                      ELSE batch.results
       IN  batch' = [batch EXCEPT
                        !.results = Append(earlier, result),
                        !.execResults = Append(@, proc.result),
                        !.pc = IF i = Len(batch.testCases) THEN "done" ELSE "starting"]
    /\ proc' = NoProc
    /\ UNCHANGED <<signalAborted, abortedAfter, compilerVars>>

\* the execution has resolved: judgeTestCase classifies, judgeAll pushes the
\* result and goes on to the next test case or returns
JudgeAllPush ==
    /\ batch.pc = "executing"
    /\ proc.resolved
    /\ LET i == Len(batch.results) + 1
           result == judgeTestCase(batch.testCases[i], proc.result, comparisonMode)
       IN  batch' = [batch EXCEPT
                        !.results = Append(@, result),
                        !.execResults = Append(@, proc.result),
                        !.pc = IF i = Len(batch.testCases) THEN "done" ELSE "starting"]
    /\ proc' = NoProc
    /\ UNCHANGED <<signalAborted, abortedAfter, compilerVars>>

\* the caller takes the results; its next call comes with a fresh signal
JudgeAllReturn ==
    /\ batch.pc = "done"
    /\ batch' = NoBatch
    /\ signalAborted' = FALSE
    /\ abortedAfter' = {}
    /\ UNCHANGED <<proc, compilerVars>>

\* the caller triggers the signal while judgeAll is in flight
Abort ==
    /\ batch.pc # "idle"
    /\ ~signalAborted
    /\ signalAborted' = TRUE
    /\ abortedAfter' = {Len(batch.spawned)}
    /\ \E elapsed \in ElapsedTimes : proc' = abortChildProcess(proc, elapsed)
    /\ UNCHANGED <<batch, compilerVars>>

(***************************************************************************)
(* Panel: the sequential-live branch of runAllTests, after a successful    *)
(* compile, on the signal of the run.  reported is what the panel has put  *)
(* into its results and shown; lingering counts the processes of test      *)
(* cases already reported that the kernel has not ended yet.               *)
(***************************************************************************)
\* runAllTests enters the sequential-live loop with n test cases
RunLiveBegin(n) ==
    /\ batch.pc = "idle"
    /\ proc.pc = "idle"
    /\ batch' = [pc |-> "liveStarting", testCases |-> BatchCases(n),
                 reported |-> <<>>, spawned |-> <<>>, lingering |-> 0]
    /\ UNCHANGED <<proc, signalAborted, abortedAfter>>

\* the loop calls judgeTestCase for the next test case, which calls
\* executor.execute
RunLiveExecute ==
    /\ batch.pc = "liveStarting"
    /\ \E os \in {"alive", "failed"} :
         /\ proc' = runProcess(signalAborted, os)
         /\ batch' = [batch EXCEPT !.pc = "liveExecuting",
                         !.spawned = Append(@, proc'.spawned)]
    /\ UNCHANGED <<signalAborted, abortedAfter>>

\* judgeTestCase returns: this._results.set(...); results.push(result);
\* await this.refresh()
RunLiveReport ==
    /\ batch.pc = "liveExecuting"
    /\ proc.resolved
    /\ LET i == Len(batch.reported) + 1
           result == judgeTestCase(batch.testCases[i], proc.result, comparisonMode)
       IN  batch' = [batch EXCEPT
                        !.reported = Append(@, result),
                        !.lingering = IF proc.spawned /\ proc.os \in {"alive", "dying"}
                                      THEN @ + 1 ELSE @,
                        !.pc = IF i = Len(batch.testCases) THEN "liveDone" ELSE "liveStarting"]
    /\ proc' = NoProc
    /\ UNCHANGED <<signalAborted, abortedAfter>>

\* the kernel ends a process whose test case has been reported
LingeringProcessEnds ==
    /\ batch.pc \in {"liveStarting", "liveExecuting", "liveDone"}
    /\ batch.lingering > 0
    /\ batch' = [batch EXCEPT !.lingering = @ - 1]
    /\ UNCHANGED <<proc, signalAborted, abortedAfter>>

\* the loop is over: runState.count = 0, cleanupRunState, refresh; the next
\* run has a new controller
RunLiveFinish ==
    /\ batch.pc = "liveDone"
    /\ batch.lingering = 0
    /\ batch' = NoBatch
    /\ signalAborted' = FALSE
    /\ abortedAfter' = {}
    /\ UNCHANGED proc

\* the signals the executor and the platform kill a process with
KillSignals == {"SIGKILL", "SIGTERM"}

\* exit codes of the program under test
ProgramExitCodes == {0, 1}

BatchNext ==
    \/ \E sourcePath \in SourcePaths, n \in 1..MaxTests : JudgeAllCall(sourcePath, n)
       /\ UNCHANGED <<judgeVars, panelVars, registryVars, resultVars>>
    \/ CompileRead(BatchCompile) /\ UNCHANGED <<judgeVars, batchVars, panelVars, registryVars, resultVars>>
    \/ CompileAccess(BatchCompile) /\ UNCHANGED <<judgeVars, batchVars, panelVars, registryVars, resultVars>>
    \/ CompileSpawn(BatchCompile) /\ UNCHANGED <<judgeVars, batchVars, panelVars, registryVars, resultVars>>
    \/ CompilerError(BatchCompile) /\ UNCHANGED <<judgeVars, batchVars, panelVars, registryVars, resultVars>>
    \/ \E code \in CompilerExitCodes : CompilerClose(BatchCompile, code)
       /\ UNCHANGED <<judgeVars, batchVars, panelVars, registryVars, resultVars>>
    \/ JudgeAllCompiled /\ UNCHANGED <<judgeVars, panelVars, registryVars, resultVars>>
    \/ JudgeAllExecute /\ UNCHANGED <<judgeVars, panelVars, registryVars, resultVars>>
    \/ ProcData /\ UNCHANGED <<judgeVars, compilerVars, panelVars, registryVars, resultVars>>
    \/ \E platform \in Platforms : TimeLimitElapses(platform)
       /\ UNCHANGED <<judgeVars, compilerVars, panelVars, registryVars, resultVars>>
    \/ \E code \in ProgramExitCodes, elapsed \in ElapsedTimes : ProcExit(code, elapsed)
       /\ UNCHANGED <<judgeVars, compilerVars, panelVars, registryVars, resultVars>>
    \/ \E killSignal \in KillSignals, elapsed \in ElapsedTimes : ProcKilled(killSignal, elapsed)
       /\ UNCHANGED <<judgeVars, compilerVars, panelVars, registryVars, resultVars>>
    \/ ProcClose /\ UNCHANGED <<judgeVars, compilerVars, panelVars, registryVars, resultVars>>
    \/ ProcError /\ UNCHANGED <<judgeVars, compilerVars, panelVars, registryVars, resultVars>>
    \/ JudgeAllPush /\ UNCHANGED <<judgeVars, panelVars, registryVars, resultVars>>
    \/ JudgeAllReturn /\ UNCHANGED <<judgeVars, panelVars, registryVars, resultVars>>
    \/ Abort /\ UNCHANGED <<judgeVars, panelVars, registryVars, resultVars>>

(***************************************************************************)
(* Panel: the per-file run state of FastJudgeViewProvider.  Run-state      *)
(* objects and AbortControllers are heap objects, named by the file they   *)
(* were created for and a number; an object no map entry and no call       *)
(* refers to any more is dropped.                                          *)
(***************************************************************************)
\* the source files open in editors
Files == {"f1", "f2"}

Runs == 1..MaxRuns

NoRun == [pc |-> "idle"]

EmptyRunState == [f \in {} |-> 0]

PanelInit ==
    /\ fileRunState = EmptyRunState
    /\ runStates = EmptyRunState
    /\ abortedControllers = {}
    /\ runs = [r \in Runs |-> NoRun]
    /\ stopped = {}

\* the run-state objects a map entry or a call refers to
UsedStates(map, rs) ==
    {map[f] : f \in DOMAIN map}
        \cup {rs[r].runState : r \in {q \in DOMAIN rs : "runState" \in DOMAIN rs[q]}}

\* the controllers a run-state object or a call's signal refers to
UsedControllers(heap, rs) ==
    {heap[o].controller : o \in DOMAIN heap}
        \cup {rs[r].signal : r \in {q \in DOMAIN rs : "signal" \in DOMAIN rs[q]}}

\* a name for a new object created for filePath
FreshId(filePath, used) ==
    <<filePath, CHOOSE i \in 1..(Cardinality(used) + 1) : <<filePath, i>> \notin used>>

\* new AbortController()
newController(heap, rs, filePath) == FreshId(filePath, UsedControllers(heap, rs))

\* the run-state objects of filePath in the order: map entry, calls
StateSites(map, rs, filePath) ==
    LET held(r) == "runState" \in DOMAIN rs[r] /\ rs[r].file = filePath
        calls == SelectSeq([r \in Runs |-> r], held)
    IN  (IF filePath \in DOMAIN map THEN <<map[filePath]>> ELSE <<>>)
            \o [i \in 1..Len(calls) |-> rs[calls[i]].runState]

\* the controllers of filePath in the order: run-state objects, calls
ControllerSites(map, heap, rs, filePath) ==
    LET objects == StateSites(map, rs, filePath)
        held(r) == "signal" \in DOMAIN rs[r] /\ rs[r].file = filePath
        calls == SelectSeq([r \in Runs |-> r], held)
    IN  [i \in 1..Len(objects) |-> heap[objects[i]].controller]
            \o [i \in 1..Len(calls) |-> rs[calls[i]].signal]

\* the number of distinct objects up to the first place of x in sites
Position(sites, x) ==
    LET first == CHOOSE i \in 1..Len(sites) :
                    sites[i] = x /\ \A j \in 1..(i - 1) : sites[j] # x
    IN  Cardinality({sites[j] : j \in 1..first})

\* the next state of the panel: unreachable objects are dropped and the
\* objects of each file are named in the order of their sites, so that two
\* heaps that differ only in the names of their objects are one state
Commit(map, heap, ab, rs, stop) ==
    LET h == [o \in DOMAIN heap \cap UsedStates(map, rs) |-> heap[o]]
        nameState(o) == <<o[1], Position(StateSites(map, rs, o[1]), o)>>
        nameController(c) == <<c[1], Position(ControllerSites(map, h, rs, c[1]), c)>>
    IN  /\ fileRunState' = [f \in DOMAIN map |-> nameState(map[f])]
        /\ runStates' =
              [n \in {nameState(o) : o \in DOMAIN h} |->
                  LET o == CHOOSE o \in DOMAIN h : nameState(o) = n
                  IN  [controller |-> nameController(h[o].controller),
                       count |-> h[o].count]]
        /\ abortedControllers' =
              {nameController(c) : c \in ab \cap UsedControllers(h, rs)}
        /\ runs' = [r \in Runs |->
                      IF "runState" \in DOMAIN rs[r]
                      THEN [rs[r] EXCEPT !.runState = nameState(@),
                                         !.signal = nameController(@)]
                      ELSE rs[r]]
        /\ stopped' = stop

\* getOrCreateRunState: the map, the heap and the object returned
getOrCreateRunState(map, heap, rs, filePath) ==
    IF filePath \in DOMAIN map
    THEN [map |-> map, heap |-> heap, state |-> map[filePath]]
    ELSE LET o == FreshId(filePath, DOMAIN heap)
             c == newController(heap, rs, filePath)
         IN  [map |-> (filePath :> o) @@ map,
              heap |-> (o :> [controller |-> c, count |-> 0]) @@ heap,
              state |-> o]

\* cleanupRunState: the map afterwards
cleanupRunState(map, heap, filePath) ==
    IF filePath \in DOMAIN map /\ heap[map[filePath]].count = 0
    THEN [f \in DOMAIN map \ {filePath} |-> map[f]]
    ELSE map

\* the 'runAll' message: refused while the file's count is positive
RunAllMessage(r, filePath) ==
    /\ runs[r].pc = "idle"
    /\ ~(filePath \in DOMAIN fileRunState /\ runStates[fileRunState[filePath]].count > 0)
    /\ Commit(fileRunState, runStates, abortedControllers,
              [runs EXCEPT ![r] = [pc |-> "loading", kind |-> "all", file |-> filePath]],
              {})

\* the fastjudge.runAll command: runAllTests is called directly
RunAllCommand(r, filePath) ==
    /\ runs[r].pc = "idle"
    /\ Commit(fileRunState, runStates, abortedControllers,
              [runs EXCEPT ![r] = [pc |-> "loading", kind |-> "all", file |-> filePath]],
              {})

\* runAllTests after the test cases are loaded: abort the existing state's
\* controller, take the file's run state, give it a new controller, set count
RunAllBegin(r, n) ==
    /\ runs[r].pc = "loading"
    /\ runs[r].kind = "all"
    /\ LET filePath == runs[r].file
       IN  IF n = 0
           THEN Commit(fileRunState, runStates, abortedControllers,
                       [runs EXCEPT ![r] = NoRun], {})
           ELSE LET ab == IF filePath \in DOMAIN fileRunState
                          THEN abortedControllers
                                 \cup {runStates[fileRunState[filePath]].controller}
                          ELSE abortedControllers
                    got == getOrCreateRunState(fileRunState, runStates, runs, filePath)
                    c == newController(got.heap, runs, filePath)
                    heap == [got.heap EXCEPT ![got.state] = [controller |-> c, count |-> n]]
                IN  Commit(got.map, heap, ab,
                           [runs EXCEPT ![r] = [pc |-> "compiling", runState |-> got.state,
                                                signal |-> c] @@ @],
                           {})

\* compile has returned: on failure runAllTests returns at once
RunAllCompiled(r, success) ==
    /\ runs[r].pc = "compiling"
    /\ Commit(fileRunState, runStates, abortedControllers,
              [runs EXCEPT ![r] = IF success
                                  THEN [pc |-> "running"] @@ @
                                  ELSE NoRun],
              {})

\* every test case of the run-all has been judged: runState.count = 0;
\* cleanupRunState(filePath)
RunAllFinish(r) ==
    /\ runs[r].pc = "running"
    /\ runs[r].kind = "all"
    /\ LET heap == [runStates EXCEPT ![runs[r].runState].count = 0]
       IN  Commit(cleanupRunState(fileRunState, heap, runs[r].file), heap,
                  abortedControllers, [runs EXCEPT ![r] = NoRun],
                  {})

\* the 'runSingle' message
RunSingleMessage(r, filePath) ==
    /\ runs[r].pc = "idle"
    /\ Commit(fileRunState, runStates, abortedControllers,
              [runs EXCEPT ![r] = [pc |-> "loading", kind |-> "single", file |-> filePath]],
              {})

\* runSingleTest after the test case is loaded: take the file's run state and
\* its controller's signal, count++
RunSingleBegin(r, found) ==
    /\ runs[r].pc = "loading"
    /\ runs[r].kind = "single"
    /\ LET filePath == runs[r].file
       IN  IF ~found
           THEN Commit(fileRunState, runStates, abortedControllers,
                       [runs EXCEPT ![r] = NoRun], {})
           ELSE LET got == getOrCreateRunState(fileRunState, runStates, runs, filePath)
                    heap == [got.heap EXCEPT ![got.state].count = @ + 1]
                IN  Commit(got.map, heap, abortedControllers,
                           [runs EXCEPT ![r] = [pc |-> "running", runState |-> got.state,
                                                signal |-> heap[got.state].controller] @@ @],
                           {})

\* judgeAll has returned: runState.count--; cleanupRunState(filePath)
RunSingleFinish(r) ==
    /\ runs[r].pc = "running"
    /\ runs[r].kind = "single"
    /\ LET heap == [runStates EXCEPT ![runs[r].runState].count = @ - 1]
       IN  Commit(cleanupRunState(fileRunState, heap, runs[r].file), heap,
                  abortedControllers, [runs EXCEPT ![r] = NoRun],
                  {})

\* the 'stopAll' message: nothing to do without a state or with count 0, else
\* abort the state's controller and delete the entry
StopAll(filePath) ==
    LET stop == {filePath}
    IN  IF filePath \notin DOMAIN fileRunState
           \/ runStates[fileRunState[filePath]].count = 0
        THEN Commit(fileRunState, runStates, abortedControllers, runs, stop)
        ELSE Commit([f \in DOMAIN fileRunState \ {filePath} |-> fileRunState[f]],
                    runStates,
                    abortedControllers \cup {runStates[fileRunState[filePath]].controller},
                    runs, stop)

PanelNext ==
    \/ \E r \in Runs, filePath \in Files : RunAllMessage(r, filePath)
       /\ UNCHANGED <<judgeVars, compilerVars, batchVars, registryVars, resultVars>>
    \/ \E r \in Runs, filePath \in Files : RunAllCommand(r, filePath)
       /\ UNCHANGED <<judgeVars, compilerVars, batchVars, registryVars, resultVars>>
    \/ \E r \in Runs, n \in 0..MaxTests : RunAllBegin(r, n)
       /\ UNCHANGED <<judgeVars, compilerVars, batchVars, registryVars, resultVars>>
    \/ \E r \in Runs, success \in BOOLEAN : RunAllCompiled(r, success)
       /\ UNCHANGED <<judgeVars, compilerVars, batchVars, registryVars, resultVars>>
    \/ \E r \in Runs : RunAllFinish(r)
       /\ UNCHANGED <<judgeVars, compilerVars, batchVars, registryVars, resultVars>>
    \/ \E r \in Runs, filePath \in Files : RunSingleMessage(r, filePath)
       /\ UNCHANGED <<judgeVars, compilerVars, batchVars, registryVars, resultVars>>
    \/ \E r \in Runs, found \in BOOLEAN : RunSingleBegin(r, found)
       /\ UNCHANGED <<judgeVars, compilerVars, batchVars, registryVars, resultVars>>
    \/ \E r \in Runs : RunSingleFinish(r)
       /\ UNCHANGED <<judgeVars, compilerVars, batchVars, registryVars, resultVars>>
    \/ \E filePath \in Files : StopAll(filePath)
       /\ UNCHANGED <<judgeVars, compilerVars, batchVars, registryVars, resultVars>>

(***************************************************************************)
(* Panel: the results runAllTests stores (sequential-live mode).  Every    *)
(* run-all of the file works on the same test cases; a result is recorded  *)
(* with its verdict and the ordinal of the run-all that stored it.         *)
(***************************************************************************)
\* the file whose test cases are run
ResultsFile == "f1"

\* the ids of its test cases
TestCaseIds == 1..MaxTests

ResultsInit ==
    /\ panelResults = [t \in {} |-> {}]
    /\ runProgress = [r \in Runs |-> [ordinal |-> 0, judged |-> 0]]

\* the ordinal of the run-all that began last
Newest == CHOOSE n \in {runProgress[r].ordinal : r \in Runs} :
              \A r \in Runs : runProgress[r].ordinal <= n

\* this._results.set(tc.id, result) for every test case
setAllResults(verdict, ordinal) ==
    [t \in TestCaseIds |-> [verdict |-> verdict, run |-> ordinal]]

\* the fastjudge.runAll command for the file
ResultsRunAll(r) ==
    /\ Newest + Cardinality({q \in Runs : runs[q].pc = "loading"}) < MaxRuns
    /\ RunAllCommand(r, ResultsFile)
    /\ UNCHANGED <<panelResults, runProgress>>

\* runAllTests after the test cases are loaded: abort the previous
\* controller, mark every test case RUNNING
ResultsBegin(r) ==
    /\ RunAllBegin(r, MaxTests)
    /\ runProgress' = [runProgress EXCEPT ![r] = [ordinal |-> Newest + 1, judged |-> 0]]
    /\ panelResults' = setAllResults("RUNNING", Newest + 1)

\* compile has returned; on failure every test case is marked CE and the
\* call returns.  The signal is not looked at.
ResultsCompiled(r, success) ==
    /\ RunAllCompiled(r, success)
    /\ panelResults' = IF success THEN panelResults
                       ELSE setAllResults("CE", runProgress[r].ordinal)
    /\ UNCHANGED runProgress

\* the verdicts judgeTestCase can return for the run: an execution on an
\* aborted signal resolves with exit code -1, which is judged RE
Verdicts(r) ==
    IF runs[r].signal \in abortedControllers THEN {"RE"} ELSE {"AC", "WA"}

\* judgeTestCase has returned for the next test case of the loop:
\* this._results.set(result.testCaseId, result)
ResultsJudged(r, verdict) ==
    /\ runs[r].pc = "running"
    /\ runs[r].kind = "all"
    /\ runProgress[r].judged < MaxTests
    /\ verdict \in Verdicts(r)
    /\ LET t == runProgress[r].judged + 1
       IN  panelResults' =
               (t :> [verdict |-> verdict, run |-> runProgress[r].ordinal]) @@ panelResults
    /\ runProgress' = [runProgress EXCEPT ![r].judged = @ + 1]
    /\ UNCHANGED panelVars

\* the loop is over: runState.count = 0; cleanupRunState(filePath)
ResultsFinish(r) ==
    /\ runProgress[r].judged = MaxTests
    /\ RunAllFinish(r)
    /\ UNCHANGED <<panelResults, runProgress>>

ResultsNext ==
    \/ \E r \in Runs : ResultsRunAll(r)
       /\ UNCHANGED <<judgeVars, compilerVars, batchVars, registryVars>>
    \/ \E r \in Runs : ResultsBegin(r)
       /\ UNCHANGED <<judgeVars, compilerVars, batchVars, registryVars>>
    \/ \E r \in Runs, success \in BOOLEAN : ResultsCompiled(r, success)
       /\ UNCHANGED <<judgeVars, compilerVars, batchVars, registryVars>>
    \/ \E r \in Runs, verdict \in {"AC", "WA", "RE"} : ResultsJudged(r, verdict)
       /\ UNCHANGED <<judgeVars, compilerVars, batchVars, registryVars>>
    \/ \E r \in Runs : ResultsFinish(r)
       /\ UNCHANGED <<judgeVars, compilerVars, batchVars, registryVars>>

(***************************************************************************)
(* The Judge driven by a mock executor (judge-service.test.ts): the        *)
(* executor's answer is any execution result.                              *)
(***************************************************************************)
\* expected outputs of the test cases handed to judgeTestCase
ExpectedOutputs == {<<"a">>, <<"a", "\n">>, <<"a", " ", "a">>, <<"a", " ", "\n", "a">>}

JudgeCases == [id : {"t1"}, expected : ExpectedOutputs]

\* exit codes a process reports: success, a plain failure, the unknown-code
\* sentinel, 128 + SIGSEGV, -SIGSEGV and 128 + SIGINT
ExitCodes == {0, 1, -1, 139, -11, 130}

MockResults ==
    [stdout : Texts(MaxLen), stderr : {"", "Error"}, exitCode : ExitCodes,
     signal : {Null}, executionTimeMs : 0..MaxTime, timedOut : BOOLEAN,
     aborted : {FALSE}]

NoCall == [pc |-> "idle"]

JudgeInit ==
    /\ comparisonMode = "trim"
    /\ jcall = NoCall

Init == JudgeInit /\ CompilerInit /\ BatchInit /\ PanelInit /\ RegistryInit /\ ResultsInit

\* JudgeService.setComparisonMode
setComparisonMode(mode) ==
    /\ comparisonMode' = mode
    /\ UNCHANGED jcall

\* judgeTestCase is called: it awaits the executor.  modeAtCall is not a
\* variable of the code: it records the mode in force at the call
JudgeTestCaseCall(testCase) ==
    /\ jcall.pc = "idle"
    /\ jcall' = [pc |-> "executing", testCase |-> testCase, modeAtCall |-> comparisonMode]
    /\ UNCHANGED comparisonMode

\* MockExecutorService.execute resolves; judgeTestCase awaits the storage
MockExecute(execResult) ==
    /\ jcall' = [pc |-> "saving", execResult |-> execResult] @@ jcall
    /\ UNCHANGED comparisonMode

\* the storage resolves; judgeTestCase determines the verdict
JudgeTestCaseClassify ==
    /\ jcall.pc = "saving"
    /\ jcall' = [pc |-> "done",
                 result |-> judgeTestCase(jcall.testCase, jcall.execResult, comparisonMode)]
                @@ jcall
    /\ UNCHANGED comparisonMode

\* the caller takes the result
JudgeTestCaseReturn ==
    /\ jcall.pc = "done"
    /\ jcall' = NoCall
    /\ UNCHANGED comparisonMode

JudgeNext ==
    \/ \E mode \in ComparisonModes : setComparisonMode(mode)
       /\ UNCHANGED <<compilerVars, batchVars, panelVars, registryVars, resultVars>>
    \/ \E testCase \in JudgeCases : JudgeTestCaseCall(testCase)
       /\ UNCHANGED <<compilerVars, batchVars, panelVars, registryVars, resultVars>>
    \/ jcall.pc = "executing" /\ \E execResult \in MockResults : MockExecute(execResult)
       /\ UNCHANGED <<compilerVars, batchVars, panelVars, registryVars, resultVars>>
    \/ JudgeTestCaseClassify
       /\ UNCHANGED <<compilerVars, batchVars, panelVars, registryVars, resultVars>>
    \/ JudgeTestCaseReturn
       /\ UNCHANGED <<compilerVars, batchVars, panelVars, registryVars, resultVars>>

SpecJudge == Init /\ [][JudgeNext]_vars

SpecCompiler == Init /\ [][CompilerNext]_vars

SpecBatch == Init /\ [][BatchNext]_vars

SpecPanel == Init /\ [][PanelNext]_vars

LiveNext ==
    \/ \E n \in 1..MaxTests : RunLiveBegin(n)
       /\ UNCHANGED <<judgeVars, compilerVars, panelVars, registryVars, resultVars>>
    \/ RunLiveExecute /\ UNCHANGED <<judgeVars, compilerVars, panelVars, registryVars, resultVars>>
    \/ RunLiveReport /\ UNCHANGED <<judgeVars, compilerVars, panelVars, registryVars, resultVars>>
    \/ LingeringProcessEnds /\ UNCHANGED <<judgeVars, compilerVars, panelVars, registryVars, resultVars>>
    \/ RunLiveFinish /\ UNCHANGED <<judgeVars, compilerVars, panelVars, registryVars, resultVars>>
    \/ Abort /\ UNCHANGED <<judgeVars, panelVars, registryVars, resultVars>>
    \/ ProcData /\ UNCHANGED <<judgeVars, compilerVars, panelVars, registryVars, resultVars>>
    \/ \E platform \in Platforms : TimeLimitElapses(platform)
       /\ UNCHANGED <<judgeVars, compilerVars, panelVars, registryVars, resultVars>>
    \/ \E code \in ProgramExitCodes, elapsed \in ElapsedTimes : ProcExit(code, elapsed)
       /\ UNCHANGED <<judgeVars, compilerVars, panelVars, registryVars, resultVars>>
    \/ \E killSignal \in KillSignals, elapsed \in ElapsedTimes :
          ProcKilled(killSignal, elapsed)
       /\ UNCHANGED <<judgeVars, compilerVars, panelVars, registryVars, resultVars>>
    \/ ProcClose /\ UNCHANGED <<judgeVars, compilerVars, panelVars, registryVars, resultVars>>
    \/ ProcError /\ UNCHANGED <<judgeVars, compilerVars, panelVars, registryVars, resultVars>>

SpecLive == Init /\ [][LiveNext]_vars

SpecExec == Init /\ [][ExecNext]_vars

SpecRegistry == Init /\ [][RegistryNext]_vars

SpecProvider == Init /\ [][ProviderNext]_vars

SpecResults == Init /\ [][ResultsNext]_vars

\* what the event loop and the kernel are bound to do: run the callbacks of
\* elapsed timers, end a process that was sent a kill, emit close once the
\* pipes are closed, emit error for a failed spawn, hand the result to the
\* caller.  A process that was not killed may run forever.
ExecFairness ==
    /\ WF_vars(\E platform \in Platforms : TimeLimitElapses(platform)
                  /\ UNCHANGED <<judgeVars, compilerVars, panelVars, registryVars, resultVars>>)
    /\ WF_vars(\E killSignal \in {"SIGKILL", "SIGTERM"}, elapsed \in ElapsedTimes :
                  ProcKilled(killSignal, elapsed)
                  /\ UNCHANGED <<judgeVars, compilerVars, panelVars, registryVars, resultVars>>)
    /\ WF_vars(ProcClose /\ UNCHANGED <<judgeVars, compilerVars, panelVars, registryVars, resultVars>>)
    /\ WF_vars(ProcError /\ UNCHANGED <<judgeVars, compilerVars, panelVars, registryVars, resultVars>>)
    /\ WF_vars(ExecuteReturn /\ UNCHANGED <<judgeVars, compilerVars, panelVars, registryVars, resultVars>>)

SpecExecFair == SpecExec /\ ExecFairness

(***************************************************************************)
(* Claims about the verdict of one test case.                              *)
(***************************************************************************)
\* C2: whenever the execution result has timedOut = true, judgeTestCase
\* returns TLE, for every exit code and every captured output
C2_TimedOutIsTLE ==
    (jcall.pc = "done" /\ jcall.execResult.timedOut) => jcall.result.verdict = "TLE"

\* a timed-out execution with exit code 0 whose output matches the expected
\* output exactly has been judged
C2_Witness ==
    /\ jcall.pc = "done"
    /\ jcall.execResult.timedOut
    /\ jcall.execResult.exitCode = 0
    /\ jcall.execResult.stdout = jcall.testCase.expected

\* do the normal forms of the two texts under the mode agree
C3_Match(mode, actual, expected) ==
    \/ mode = "exact" /\ actual = expected
    \/ mode = "trim" /\ normalizeOutput(actual) = normalizeOutput(expected)
    \/ mode = "ignoreWhitespace"
         /\ collapseWhitespace(actual) = collapseWhitespace(expected)

\* C3: for timedOut = false and exit code 0 the verdict is AC if stdout
\* matches the expected output under the mode active at the comparison, and
\* WA otherwise
C3_ExitZeroIsACorWA ==
    [][(jcall.pc = "saving" /\ jcall'.pc = "done"
            /\ ~jcall.execResult.timedOut /\ jcall.execResult.exitCode = 0)
        => jcall'.result.verdict =
              IF C3_Match(comparisonMode, jcall.execResult.stdout, jcall.testCase.expected)
              THEN "AC" ELSE "WA"]_vars

\* an output that differs from the expected text was accepted (it matches
\* only after normalisation), with exit code 0 and no timeout
C3_Witness ==
    /\ jcall.pc = "done"
    /\ ~jcall.execResult.timedOut
    /\ jcall.execResult.exitCode = 0
    /\ jcall.execResult.stdout # jcall.testCase.expected
    /\ jcall.result.verdict = "AC"

\* C4: for timedOut = false and a non-zero exit code the verdict is RE
\* whatever the output, and the result carries the exit code unchanged
C4_NonZeroExitIsRE ==
    (jcall.pc = "done" /\ ~jcall.execResult.timedOut /\ jcall.execResult.exitCode # 0)
        => /\ jcall.result.verdict = "RE"
           /\ jcall.result.exitCode = jcall.execResult.exitCode

\* a run that exited with 139 but printed exactly the expected output has
\* been judged
C4_Witness ==
    /\ jcall.pc = "done"
    /\ ~jcall.execResult.timedOut
    /\ jcall.execResult.exitCode = 139
    /\ jcall.execResult.stdout = jcall.testCase.expected

(***************************************************************************)
(* Claims about the compilation cache.                                     *)
(***************************************************************************)
\* the call has returned from compile for a source of a compiled language
\* whose text it could read
C5_Compiled(c) ==
    /\ ccall[c].pc = "done"
    /\ "hash" \in DOMAIN ccall[c]

C6_ReturnsHit(c) ==
    /\ ccall[c].pc \in {"read", "access"}
    /\ ccall'[c].pc = "done"
    /\ "cached" \in DOMAIN ccall'[c].result
    /\ ccall'[c].result.cached

\* C6: compile returns cached = true for a compiled language only if the
\* entry it found stores the hash of the source text it read, the cache held
\* that hash for the text on file when the call looked the source up, and
\* the entry's artifact path (when recorded) exists on disk when it returns
C6_HitOnlyIfValid ==
    [][\A c \in CompileCalls :
          /\ (ccall[c].pc = "read" /\ ccall'[c].pc \in {"access", "done"}
                 /\ "cached" \in DOMAIN ccall'[c])
             => /\ ccall[c].sourcePath \in DOMAIN cache
                /\ cache[ccall[c].sourcePath].contentHash
                      = computeHash(content[ccall[c].sourcePath])
          /\ C6_ReturnsHit(c)
             => /\ "cached" \in DOMAIN ccall'[c]
                /\ ccall'[c].cached.contentHash = ccall'[c].hash
                /\ "executablePath" \in DOMAIN ccall'[c].cached
                      => ccall'[c].cached.executablePath \in DOMAIN disk
      ]_vars

\* a compile returned a hit after the source had been edited away from the
\* compiled text and back
C6_Witness ==
    \E c \in CompileCalls :
        /\ ccall[c].pc = "done"
        /\ "access" \in DOMAIN ccall[c] /\ ccall[c].access = "ok"
        /\ ccall[c].result.cached = TRUE
        /\ ccall[c].hash = computeHash("v2")

C7_PreAbortedNeverSpawns ==
    /\ [][(batch.pc = "starting" /\ batch'.pc = "executing" /\ signalAborted) =>
             /\ proc'.resolved
             /\ ~proc'.spawned
             /\ proc'.result.aborted
             /\ proc'.result.stdout = <<>>
             /\ proc'.result.stderr = ""
             /\ proc'.result.executionTimeMs = 0]_vars
    /\ []((batch.pc = "done" /\ batch.compileResult.success /\ abortedAfter = {0}) =>
             /\ Len(batch.execResults) = Len(batch.testCases)
             /\ \A i \in 1..Len(batch.testCases) :
                   batch.execResults[i].aborted /\ ~batch.spawned[i])

\* a batch of two test cases, compiled with success, whose signal was
\* triggered before its first test case started, has returned
C7_Witness ==
    /\ batch.pc = "done"
    /\ batch.compileResult.success
    /\ abortedAfter = {0}
    /\ Len(batch.testCases) = 2
    /\ batch.execResults[2].aborted

(***************************************************************************)
(* C8: once the signal of a batch is triggered, the results already        *)
(* produced stay as they are, and every test case that had not started     *)
(* reports aborted=true without a process being spawned for it.            *)
(***************************************************************************)
C8_CancelMidBatch ==
    /\ [][(signalAborted' /\ batch.pc # "idle" /\ batch'.pc # "idle") =>
             /\ Len(batch'.results) >= Len(batch.results)
             /\ \A i \in 1..Len(batch.results) : batch'.results[i] = batch.results[i]
             /\ \A i \in 1..Len(batch.execResults) :
                   batch'.execResults[i] = batch.execResults[i]]_vars
    /\ [](\A k \in abortedAfter :
             /\ \A i \in 1..Len(batch.spawned) : i > k => ~batch.spawned[i]
             /\ \A i \in 1..Len(batch.execResults) :
                   i > k => batch.execResults[i].aborted)

\* a batch of two whose signal was triggered after the first test case was
\* started: the first was accepted, the second came back aborted unspawned
C8_Witness ==
    /\ batch.pc = "done"
    /\ abortedAfter = {1}
    /\ Len(batch.testCases) = 2
    /\ batch.results[1].verdict = "AC"
    /\ ~batch.execResults[1].aborted
    /\ batch.execResults[2].aborted
    /\ ~batch.spawned[2]

(***************************************************************************)
(* C9: when runAllTests for a file begins, every other run-all of that     *)
(* file that is in flight has its signal aborted; and a step of a run or a *)
(* stop for one file leaves the run-state objects, the controllers and the *)
(* map entry of every other file as they were.                             *)
(***************************************************************************)
\* the files the step acts on: those of the calls it changes or of its stop
C9_ActingFiles ==
    {runs[r].file : r \in {q \in Runs : runs'[q] # runs[q] /\ runs[q].pc # "idle"}}
        \cup {runs'[r].file : r \in {q \in Runs : runs'[q] # runs[q] /\ runs'[q].pc # "idle"}}
        \cup stopped'

\* the run state kept for a file: its map entry, its objects, its aborted controllers
C9_RunStateOf(f) ==
    <<IF f \in DOMAIN fileRunState THEN {fileRunState[f]} ELSE {},
      [o \in {x \in DOMAIN runStates : x[1] = f} |-> runStates[o]],
      {c \in abortedControllers : c[1] = f}>>

\* C9, first half: a beginning run-all aborts the signal of every other
\* run-all of its file that is in flight
C9_PreviousRunAllCancelled ==
    [][\A r \in Runs :
          (runs[r].pc = "loading" /\ runs[r].kind = "all" /\ runs'[r].pc = "compiling") =>
              \A q \in Runs \ {r} :
                  (/\ runs[q].pc \in {"compiling", "running"}
                   /\ runs[q].kind = "all"
                   /\ runs[q].file = runs[r].file)
                      => runs'[q].signal \in abortedControllers']_vars

\* C9, second half: a step leaves the run state of the files it does not
\* act on as it was
C9_OtherFilesUntouched ==
    [][\A f \in Files \ C9_ActingFiles : C9_RunStateOf(f)' = C9_RunStateOf(f)]_vars

\* C9: a beginning run-all cancels the previous in-flight run-all of its
\* file, and no step changes the run state of another file
C9_RunAllCancelsPrevious == C9_PreviousRunAllCancelled /\ C9_OtherFilesUntouched

(***************************************************************************)
(* C10: right after a 'stopAll' message for a file is handled, every call  *)
(* of that file that is executing test cases, run-all or single-test, has  *)
(* its signal aborted.                                                     *)
(***************************************************************************)
C10_StopAllAbortsEveryExecution ==
    \A f \in stopped :
        \A r \in Runs :
            (runs[r].pc = "running" /\ runs[r].file = f)
                => runs[r].signal \in abortedControllers

(***************************************************************************)
(* C11: judgeAll hands its caller one result per test case, result i       *)
(* carrying the id of test case i, and hands them over only in the step    *)
(* that ends the call, when every test case of the batch has its result.   *)
(***************************************************************************)
C11_ResultsInOrderAtTheEnd ==
    /\ [](batch.pc # "idle" =>
             /\ Len(batch.results) <= Len(batch.testCases)
             /\ \A i \in 1..Len(batch.results) :
                   batch.results[i].testCaseId = batch.testCases[i].id)
    /\ [][(batch.pc # "idle" /\ batch'.pc = "idle") =>
             /\ batch.pc = "done"
             /\ Len(batch.results) = Len(batch.testCases)
             /\ \A i \in 1..Len(batch.testCases) :
                   batch.results[i].testCaseId = batch.testCases[i].id]_vars

\* a batch of two test cases that were both executed is about to return,
\* with two different verdicts
C11_Witness ==
    /\ batch.pc = "done"
    /\ batch.compileResult.success
    /\ Len(batch.testCases) = 2
    /\ batch.results[1].verdict = "WA"
    /\ batch.results[2].verdict = "AC"

\* the process of the execution was still running when the time limit
\* elapsed: the timeout of spawn, cleared when the child exits, has fired
C12_RunningAtTimeLimit ==
    proc.pc = "running" /\ proc.spawned /\ proc.builtin = "fired" /\ proc.resolved

\* C12 as stated: every execution whose process is still running when the
\* time limit elapses resolves with timedOut = true
C12_TimeLimitIsTimedOut ==
    C12_RunningAtTimeLimit => proc.result.timedOut

\* C12, for executions not cancelled before they resolve: an execution whose
\* process is still running when the time limit elapses resolves with
\* timedOut = true and is judged TLE, whichever kill ends the process and
\* whatever it had exited with
C12_TimeLimitIsTLEUnlessCancelled ==
    (C12_RunningAtTimeLimit /\ ~proc.result.aborted) =>
        /\ proc.result.timedOut
        /\ \A mode \in ComparisonModes :
              judgeTestCase(BatchCases(1)[1], proc.result, mode).verdict = "TLE"

C12_Witness ==
    /\ C12_RunningAtTimeLimit /\ ~proc.result.aborted
    /\ proc.closed /\ proc.exitSignal = "SIGTERM"
    /\ proc.result.timedOut

\* C13: once the result of a timed-out execution has been produced, neither
\* the process nor any of its descendants is still running
C13_TimeoutKillsTheTree ==
    (proc.pc = "running" /\ proc.spawned /\ proc.resolved /\ proc.result.timedOut)
        => TreeGone(proc)

\* C14: once the signal is triggered, a process that was running on it and
\* the descendants of that process are eventually terminated
C14_AbortKillsTheTree ==
    (signalAborted /\ proc.pc = "running" /\ proc.spawned /\ proc.os = "dying")
        ~> (proc.pc = "idle" \/ TreeGone(proc))

\* C15: whatever the process does, no failure of the execution escapes as
\* an exception: the only outcome of execute is its result
C15_NoFailureEscapes ==
    (proc.pc = "running" /\ proc.spawned) => ~proc.uncaught

\* C16: a judgeTestCase call in flight when the mode is changed is classified
\* under the mode in force when the call began
C16_ClassifiedUnderModeAtCall ==
    jcall.pc = "done" =>
        jcall.result = judgeTestCase(jcall.testCase, jcall.execResult, jcall.modeAtCall)

\* a line without its trailing whitespace: its longest prefix that does not
\* end in whitespace
C17_StripLine(line) ==
    LET ends == {i \in 0..Len(line) : i = 0 \/ line[i] \notin Whitespace}
        k == CHOOSE i \in ends : \A j \in ends : j <= i
    IN  SubSeq(line, 1, k)

\* the normal form of trim: every line without its trailing whitespace, and
\* no blank lines at the end
C17_TrimForm(text) ==
    LET lines == split(text)
        stripped == [i \in 1..Len(lines) |-> C17_StripLine(lines[i])]
        ends == {i \in 0..Len(stripped) : i = 0 \/ stripped[i] # <<>>}
        n == CHOOSE i \in ends : \A j \in ends : j <= i
    IN  join(SubSeq(stripped, 1, n))

RECURSIVE C17_CollapseFrom(_, _)
\* the normal form of ignoreWhitespace from position i on: the characters
\* that are not whitespace, and one space for every run of whitespace that
\* has such a character on both sides
C17_CollapseFrom(text, i) ==
    IF i > Len(text) THEN <<>>
    ELSE LET inner == /\ text[i] \in Whitespace
                      /\ i > 1 /\ text[i - 1] \notin Whitespace
                      /\ \E j \in (i + 1)..Len(text) : text[j] \notin Whitespace
             here == IF text[i] \notin Whitespace THEN <<text[i]>>
                     ELSE IF inner THEN <<" ">> ELSE <<>>
         IN  here \o C17_CollapseFrom(text, i + 1)

\* the normal form of a text under a mode
C17_NormalForm(mode, text) ==
    CASE mode = "exact" -> text
      [] mode = "trim" -> C17_TrimForm(text)
      [] mode = "ignoreWhitespace" -> C17_CollapseFrom(text, 1)

\* C17: under each mode the actual and the expected output match exactly
\* when their normal forms are equal
C17_MatchIffNormalFormsEqual ==
    jcall.pc \in {"saving", "done"} =>
        \A mode \in ComparisonModes :
            compareOutput(mode, jcall.execResult.stdout, jcall.testCase.expected)
                <=> (C17_NormalForm(mode, jcall.execResult.stdout)
                        = C17_NormalForm(mode, jcall.testCase.expected))

\* trailing whitespace inside the text: accepted under trim and under
\* ignoreWhitespace, not under exact
C17_Witness ==
    /\ jcall.pc = "done"
    /\ jcall.execResult.stdout = <<"a", "\n", "a">>
    /\ jcall.testCase.expected = <<"a", " ", "\n", "a">>
    /\ ~jcall.execResult.timedOut /\ jcall.execResult.exitCode = 0
    /\ comparisonMode = "trim" /\ jcall.modeAtCall = "trim"
    /\ jcall.result.verdict = "AC"
    /\ ~compareOutput("exact", jcall.execResult.stdout, jcall.testCase.expected)
    /\ compareOutput("ignoreWhitespace", jcall.execResult.stdout, jcall.testCase.expected)

\* C18: under every mode a text matches itself
C18_CompareIsReflexive ==
    jcall.pc \in {"saving", "done"} =>
        \A mode \in ComparisonModes :
            /\ compareOutput(mode, jcall.execResult.stdout, jcall.execResult.stdout)
            /\ compareOutput(mode, jcall.testCase.expected, jcall.testCase.expected)

\* an output equal to an expected text that is not in normal form was judged
C18_Witness ==
    /\ jcall.pc = "done"
    /\ jcall.execResult.stdout = <<"a", "\n">>
    /\ jcall.testCase.expected = jcall.execResult.stdout
    /\ ~jcall.execResult.timedOut /\ jcall.execResult.exitCode = 0
    /\ jcall.result.verdict = "AC"

\* the signal number an exit code stands for: code - 128 above 128, -code
\* below 0, none (0) otherwise
C19_SignalNumber(exitCode) ==
    IF exitCode > 128 THEN exitCode - 128
    ELSE IF exitCode < 0 THEN 0 - exitCode
    ELSE 0

\* the signals the classification knows, by their POSIX numbers
C19_Signals == 6 :> "SIGABRT" @@ 8 :> "SIGFPE" @@ 9 :> "SIGKILL" @@ 11 :> "SIGSEGV"

\* C19: the RE result of a process that exited with a code above 128 or
\* below 0 names the signal numbered code - 128 or -code, SIGSEGV for 139,
\* and no signal when the number has no table entry; the exit code is kept
C19_ExitCodeToSignal ==
    (jcall.pc = "done" /\ ~jcall.execResult.timedOut /\ jcall.execResult.exitCode # 0) =>
        LET code == jcall.execResult.exitCode
            number == C19_SignalNumber(code)
        IN  /\ jcall.result.verdict = "RE"
            /\ jcall.result.exitCode = code
            /\ jcall.result.signal = IF number \in DOMAIN C19_Signals
                                     THEN C19_Signals[number] ELSE Undefined
            /\ code = 139 => jcall.result.signal = "SIGSEGV"
            /\ parseSignal(code) = jcall.result.signal

\* a negative exit code was classified as the signal of that number
C19_Witness ==
    /\ jcall.pc = "done" /\ ~jcall.execResult.timedOut
    /\ jcall.execResult.exitCode = -11
    /\ jcall.result.verdict = "RE"
    /\ jcall.result.signal = "SIGSEGV"

\* the positions, in the setting as read, of the languages with a name, an
\* extension list and a run template that claim the extension
C20_Claimants(ext) ==
    {i \in 1..Len(languages) :
        /\ \A j \in 1..i : "config" \in DOMAIN languages[j]
        /\ languages[i].config.name # ""
        /\ languages[i].config.runArgs # <<>>
        /\ \E k \in 1..Len(languages[i].config.extensions) :
              toLowerCase(languages[i].config.extensions[k]) = toLowerCase(ext)}

\* C20: when two configured languages claim the same extension the load
\* registers both, and every detection for that extension since the load
\* returned the language that comes first in the setting
C20_DuplicateExtensionFirstWins ==
    \A ext \in DOMAIN detected :
        Cardinality(C20_Claimants(ext)) >= 2 =>
            /\ \A i \in C20_Claimants(ext) :
                  \E k \in 1..Len(providers) : providers[k].id = languages[i].id
            /\ \E i \in C20_Claimants(ext) :
                  /\ \A j \in C20_Claimants(ext) : i <= j
                  /\ detected[ext] = languages[i].id

\* two languages claim .c, the second one also .py, and both extensions
\* were asked for
C20_Witness ==
    /\ Len(languages) = 2 /\ Len(providers) = 2
    /\ languages[1].config.extensions = <<".C">>
    /\ languages[2].config.extensions = <<".c", ".py">>
    /\ {".c", ".py"} \subseteq DOMAIN detected
    /\ detected[".c"] = "lang1"
    /\ detected[".py"] = "lang2"

\* C21: when a compile call that did not take the cache-hit path returns,
\* the cache holds no entry for its source whose hash differs from the hash
\* of the text the call read, even when the recompilation failed
C21_StaleEntryInvalidated ==
    \A c \in CompileCalls :
        (/\ ccall[c].pc = "done"
         /\ "hash" \in DOMAIN ccall[c]
         /\ "cached" \in DOMAIN ccall[c].result
         /\ ~ccall[c].result.cached)
        => (ccall[c].sourcePath \in DOMAIN cache
               => cache[ccall[c].sourcePath].contentHash = ccall[c].hash)

\* C22: compiling a source never changes the cache entry of another source,
\* and a cache hit for a source never refers to an artifact that compiling
\* another source has overwritten
C22_CacheEntriesNeverCollide ==
    /\ [][\A c \in CompileCalls :
             (ccall[c].pc = "compiling" /\ ccall'[c].pc = "done") =>
                 \A other \in SourcePaths \ {ccall[c].sourcePath} :
                     /\ (other \in DOMAIN cache) = (other \in DOMAIN cache')
                     /\ other \in DOMAIN cache => cache'[other] = cache[other]]_vars
    /\ [][\A c \in CompileCalls :
             (/\ ccall[c].pc = "access" /\ ccall'[c].pc = "done"
              /\ ccall'[c].result.cached)
             => disk[ccall[c].cached.executablePath] = ccall[c].sourcePath]_vars

\* the step creates the cache entry of the path or changes it
C23_Written(path) ==
    /\ path \in DOMAIN cache'
    /\ path \notin DOMAIN cache \/ cache'[path] # cache[path]

\* C23: a cache entry is created or overwritten only in the step in which a
\* compiler process for its path closes with exit code 0; a compile that
\* ends in failure leaves every entry as it was
C23_FailedCompileWritesNoEntry ==
    [][/\ \A path \in SourcePaths :
             C23_Written(path) =>
                 \E c \in CompileCalls :
                     /\ ccall[c].pc = "compiling" /\ ccall[c].sourcePath = path
                     /\ ccall'[c].pc = "done" /\ ccall'[c].result.success
       /\ \A c \in CompileCalls :
             (ccall[c].pc # "done" /\ ccall'[c].pc = "done" /\ ~ccall'[c].result.success)
                 => \A path \in SourcePaths : ~C23_Written(path)]_vars

\* a recompilation failed while the cache held an entry for the source
C23_Witness ==
    \E c \in CompileCalls :
        /\ ccall[c].pc = "done" /\ ~ccall[c].result.success
        /\ ccall[c].spawned
        /\ ccall[c].sourcePath \in DOMAIN cache
        /\ cache[ccall[c].sourcePath].contentHash # ccall[c].hash

\* C24: for a language with no compile template compile returns at once with
\* success, cached = true and the output directory, having read no source,
\* spawned no process and left the cache alone
C24_InterpretedNeedsNoCompile ==
    [][\A c \in CompileCalls :
          (ccall[c].pc = "idle" /\ ccall'[c].pc # "idle" /\ ccall'[c].sourcePath.ext = ".py")
              => /\ ccall'[c].pc = "done"
                 /\ ccall'[c].result = [success |-> TRUE, outputDir |-> outputDir, cached |-> TRUE]
                 /\ ~ccall'[c].spawned
                 /\ "hash" \notin DOMAIN ccall'[c]
                 /\ cache' = cache /\ disk' = disk]_vars

\* compile returned for the interpreted source while the cache was in use
C24_Witness ==
    \E c \in CompileCalls :
        /\ ccall[c].pc = "done" /\ ccall[c].sourcePath.ext = ".py"
        /\ ccall[c].result.success /\ ccall[c].result.cached
        /\ cache # EmptyCache

\* C25: when the compiler process cannot be launched, compile returns the
\* failure that says the compiler was not found, whatever the close event
\* that follows the launch error carries, and records no cache entry
C25_LaunchFailureIsCompilerNotFound ==
    [][\A c \in CompileCalls :
          (ccall[c].pc = "errored" /\ ccall'[c].pc # "errored")
              => /\ ccall'[c].pc = "done"
                 /\ ccall'[c].result =
                       [success |-> FALSE, error |-> "Compiler not found", cached |-> FALSE]
                 /\ cache' = cache]_vars

\* the close event has followed the launch error and compile has returned
C25_Witness ==
    \E c \in CompileCalls :
        /\ ccall[c].pc = "done"
        /\ ccall[c].spawned
        /\ ~ccall[c].result.success
        /\ ccall[c].result.error = "Compiler not found"

\* C26: when the signal fires while the process of the execution is running,
\* the execution resolves with aborted = true and without the message of a
\* transport-level error in stderr
C26_AbortedMidExecution ==
    [][(/\ ~signalAborted /\ signalAborted'
        /\ proc.pc = "running" /\ proc.spawned /\ proc.os \in {"alive", "dying"})
       => /\ proc'.resolved
          /\ proc'.result.aborted
          /\ proc'.result.stderr # "Execution error"
          /\ proc'.result.stderr = ""]_vars

\* the signal fired after the process had written output, and the process
\* has not ended yet
C26_Witness ==
    /\ proc.pc = "running" /\ proc.spawned /\ signalAborted
    /\ proc.os = "dying" /\ Len(proc.stdout) > 0
    /\ proc.resolved /\ proc.result.aborted /\ proc.result.stderr = ""

\* C27: when the process cannot be spawned and no cancellation was
\* requested, the execution resolves with exit code -1, timedOut = false,
\* aborted = false, empty stdout and a message in stderr, and the judge
\* reports RE
C27_SpawnFailureIsRE ==
    (/\ proc.pc = "running" /\ proc.spawned /\ proc.os = "failed"
     /\ proc.resolved /\ ~proc.result.aborted)
    => /\ proc.result.exitCode = -1
       /\ ~proc.result.timedOut
       /\ proc.result.stdout = <<>>
       /\ proc.result.stderr # ""
       /\ \A mode \in ComparisonModes :
             judgeTestCase(BatchCases(1)[1], proc.result, mode).verdict = "RE"

\* the spawn failed, the error was reported and the child has closed
C27_Witness ==
    /\ proc.pc = "running" /\ proc.spawned /\ proc.os = "failed"
    /\ proc.resolved /\ ~proc.result.aborted /\ proc.closed
    /\ proc.result.stderr = "Execution error"

\* C28: no execution result has both aborted = true and timedOut = true
C28_AbortedIsNotTimedOut ==
    (proc.pc = "running" /\ proc.resolved)
        => ~(proc.result.aborted /\ proc.result.timedOut)

\* C29: when no run for a file is in flight, the file has no run-state
\* entry (its count went back to zero and the entry was deleted), so a
\* 'runAll' message for the file is accepted
C29_NoRunNoEntry ==
    \A f \in Files :
        (\A r \in Runs : runs[r].pc = "idle" \/ runs[r].file # f)
            => f \notin DOMAIN fileRunState

\* the test-case processes of the live loop that the kernel has not ended
C30_Running ==
    batch.lingering
    + (IF proc.pc # "idle" /\ proc.spawned /\ proc.os \in {"alive", "dying"} THEN 1 ELSE 0)

\* C30: in the sequential-live loop at most one test-case process of the
\* batch is running at any time, test case i+1 is started only after the
\* result of test case i has been reported, and the results are reported in
\* the order of the input
C30_SequentialLiveOneAtATime ==
    batch.pc \in {"liveStarting", "liveExecuting", "liveDone"} =>
        /\ C30_Running <= 1
        /\ Len(batch.spawned) =
               Len(batch.reported) + (IF batch.pc = "liveExecuting" THEN 1 ELSE 0)
        /\ \A i \in 1..Len(batch.reported) :
               batch.reported[i].testCaseId = batch.testCases[i].id

\* the second test case is running after the first one, which was spawned
\* too, has been reported
C30_Witness ==
    /\ batch.pc = "liveExecuting"
    /\ Len(batch.testCases) = 2
    /\ Len(batch.reported) = 1
    /\ batch.spawned = <<TRUE, TRUE>>
    /\ proc.os = "alive"
    /\ ~proc.resolved

\* a language of the setting with a non-empty name, a non-empty extension
\* list and a non-empty run template
C31_Valid(entry) ==
    /\ "config" \in DOMAIN entry
    /\ entry.config.name # ""
    /\ entry.config.extensions # <<>>
    /\ entry.config.runArgs # <<>>

\* C31: after a reload the registry holds exactly the valid languages of
\* the configuration that was read, each with the extensions of that
\* configuration, so no lookup sees a provider of an earlier configuration
\* or a provider set that was loaded only in part
C31_ReloadReplacesProviderSet ==
    /\ {providers[k].id : k \in 1..Len(providers)}
         = {languages[i].id : i \in {j \in 1..Len(languages) : C31_Valid(languages[j])}}
    /\ \A k \in 1..Len(providers) :
          \E i \in 1..Len(languages) :
             /\ "config" \in DOMAIN languages[i]
             /\ languages[i].id = providers[k].id
             /\ providers[k] = CustomLanguageProvider(languages[i].id, languages[i].config)

\* C32: a reload skips every configured language with an empty name, an
\* empty extension list or an empty run template, and registers every other
\* language of the same configuration
C32_ReloadSkipsInvalidLanguages ==
    \A i \in 1..Len(languages) :
        "config" \in DOMAIN languages[i] =>
            LET registered == \E k \in 1..Len(providers) : providers[k].id = languages[i].id
                empty == \/ languages[i].config.name = ""
                         \/ languages[i].config.extensions = <<>>
                         \/ languages[i].config.runArgs = <<>>
            IN  registered = ~empty

\* the extension in lower case with a leading dot
C33_Normalized(ext) == IF ext = "py" THEN ".py" ELSE toLowerCase(ext)

\* C33: after a reload every registered extension is in lower case with a
\* leading dot, and a detection for a path whose extension a registered
\* language was configured with, in upper case or without its dot, finds a
\* language
C33_ExtensionsNormalized ==
    /\ \A k \in 1..Len(providers) :
          \A ext \in providers[k].extensions : ext = C33_Normalized(ext)
    /\ \A ext \in DOMAIN detected :
          (\E i \in 1..Len(languages) :
              /\ \E k \in 1..Len(providers) : providers[k].id = languages[i].id
              /\ \E n \in 1..Len(languages[i].config.extensions) :
                    C33_Normalized(languages[i].config.extensions[n]) = C33_Normalized(ext))
          => detected[ext] # Undefined

\* the arguments of a command (the command first) that the template has the
\* executable-file placeholder for
C34_ExecutableFileArguments(template, command) ==
    {(<<command.command>> \o command.args)[i] :
        i \in {j \in 1..Len(template) : template[j] = "${executableFile}"}}

\* C34: the executable-file placeholder of the compile and the run template
\* is replaced by the path getExecutablePath returns for the same provider
\* and source path, also when the provider has an output-extension override
C34_ExecutableFileIsArtifactPath ==
    "executablePath" \in DOMAIN customProvider =>
        /\ "compileCommand" \in DOMAIN customProvider =>
              \A arg \in C34_ExecutableFileArguments(customProvider.config.compileArgs,
                                                     customProvider.compileCommand) :
                 arg = customProvider.executablePath
        /\ "runCommand" \in DOMAIN customProvider =>
              \A arg \in C34_ExecutableFileArguments(customProvider.config.runArgs,
                                                     customProvider.runCommand) :
                 arg = customProvider.executablePath

\* C35: an execution result has timedOut = true only if the process had not
\* exited when the time-limit timer fired: the timer sets the flag the close
\* handler will report only while no exit event has been handled
C35_TimedOutOnlyWhileRunning ==
    [][(/\ proc.pc = "running" /\ proc.spawned /\ ~proc.resolved
        /\ ~proc.timedOut
        /\ proc'.pc = "running" /\ proc'.timedOut)
       => ~proc.exited]_vars

\* C36: every call of execute eventually produces a result, also for a
\* program that never ends by itself or whose descendants keep its output
\* streams open after the kill at the time limit
C36_ExecuteEventuallyResolves ==
    (proc.pc = "running") ~> (proc.pc = "running" /\ proc.resolved)

\* C37: whenever a run-all or a single-test run that was not cancelled is in
\* flight for a file, the run-state map has an entry for the file whose
\* count is positive and whose controller is the one the run observes
C37_InFlightRunHasItsEntry ==
    \A r \in Runs :
        (/\ runs[r].pc \in {"compiling", "running"}
         /\ runs[r].signal \notin abortedControllers)
        => /\ runs[r].file \in DOMAIN fileRunState
           /\ runStates[fileRunState[runs[r].file]].count > 0
           /\ runStates[fileRunState[runs[r].file]].controller = runs[r].signal

\* C38: once a run-all that superseded an earlier run-all of the file and
\* the superseded run have both finished, the stored result of every test
\* case is the one of the run-all that began last
C38_NewestRunKeepsItsResults ==
    (Newest >= 2 /\ \A r \in Runs : runs[r].pc = "idle") =>
        \A t \in DOMAIN panelResults : panelResults[t].run = Newest

\* C39 as stated: once an execution has produced its result, no timer of
\* the execution fires and no kill is issued for it any more, and the
\* result does not change
C39_NoKillAfterResult ==
    [][(/\ proc.pc = "running" /\ proc.spawned /\ proc.resolved
        /\ proc'.pc = "running")
       => /\ proc'.kills = proc.kills
          /\ proc'.timer = "fired" => proc.timer = "fired"
          /\ proc'.builtin = "fired" => proc.builtin = "fired"
          /\ proc'.result = proc.result]_vars

\* C39: once an execution has produced its result, through the close or the
\* error handler, the executor's timer is no longer armed, killProcess is
\* not called for the execution any more (a later kill is the SIGTERM of
\* the timeout of spawn, sent to a process that has not exited yet), and
\* the result does not change
C39_TimerCancelledAfterResult ==
    [][(/\ proc.pc = "running" /\ proc.spawned /\ proc.resolved
        /\ proc'.pc = "running")
       => /\ proc.timer # "armed"
          /\ proc'.timer = proc.timer
          /\ proc'.kills \subseteq proc.kills \cup {"SIGTERM"}
          /\ (proc'.kills # proc.kills \/ proc'.builtin # proc.builtin)
                => proc.os = "dying" /\ proc.result.aborted
          /\ proc'.result = proc.result]_vars

\* an execution resolved by its error handler after an abort, whose process
\* was then sent the signal of spawn's timeout, and closed
C39_Witness ==
    /\ proc.pc = "running" /\ proc.spawned /\ proc.resolved
    /\ proc.result.aborted
    /\ proc.timer = "cleared"
    /\ proc.builtin = "fired"
    /\ proc.closed

\* the comparison modes at least as lenient as the mode
C40_AtLeastAsLenient(mode) ==
    CASE mode = "exact" -> {"exact", "trim", "ignoreWhitespace"}
      [] mode = "trim" -> {"trim", "ignoreWhitespace"}
      [] mode = "ignoreWhitespace" -> {"ignoreWhitespace"}

\* C40: for the output of every execution and the expected output of its
\* test case, a match under exact is a match under trim and a match under
\* trim is a match under ignoreWhitespace, so a result that is AC under a
\* mode is AC under every more lenient mode
C40_ModesOrderedByLeniency ==
    "execResult" \in DOMAIN jcall =>
        \A mode \in ComparisonModes :
            \A lenient \in C40_AtLeastAsLenient(mode) :
                /\ compareOutput(mode, jcall.execResult.stdout, jcall.testCase.expected)
                      => compareOutput(lenient, jcall.execResult.stdout,
                                       jcall.testCase.expected)
                /\ judgeTestCase(jcall.testCase, jcall.execResult, mode).verdict = "AC"
                      => judgeTestCase(jcall.testCase, jcall.execResult, lenient).verdict
                            = "AC"

\* an output judged AC under trim that does not match under exact
C40_Witness ==
    /\ jcall.pc = "done"
    /\ comparisonMode = "trim"
    /\ jcall.result.verdict = "AC"
    /\ ~compareOutput("exact", jcall.execResult.stdout, jcall.testCase.expected)
    /\ compareOutput("ignoreWhitespace", jcall.execResult.stdout, jcall.testCase.expected)

====
